---- MODULE Spec2Model ----
(***************************************************************************)
(* BudgeTRAX backend: the budget service over its relational store.        *)
(* The store's tables (categories, transactions, monthly_goals) are the    *)
(* state, with the latest dashboard summary handed out (dashboard);        *)
(* every service call of BudgetService is one action.  Where the order of  *)
(* the store calls of concurrent requests matters, the calls in flight     *)
(* (calls) advance one store call at a time, and store_up says whether     *)
(* the store answers.  The accounts (users), the                           *)
(* accounts of the identity provider (auth_users) and the request that is  *)
(* passing the authentication middleware (request) are the state of the    *)
(* authentication routes.                                                  *)
(*                                                                         *)
(* Text that the code inspects character by character (category ids,      *)
(* slugs, category names) is a sequence of one-character strings.          *)
(* An optional argument is <<>> when it is undefined and <<v>> otherwise.  *)
(***************************************************************************)
EXTENDS Integers, Sequences, FiniteSets, TLC

VARIABLES categories, transactions, monthly_goals, catSeq, txSeq, goalSeq,
          dashboard, calls, store_up, users, auth_users, request

vars == <<categories, transactions, monthly_goals, catSeq, txSeq, goalSeq, dashboard,
          calls, store_up, users, auth_users, request>>

(***************************************************************************)
(* Bounds of the model.                                                    *)
(***************************************************************************)
\* user categories the store is asked to create before the model stops creating
MaxCategories == 2
\* transactions the store is asked to create before the model stops creating
MaxTransactions == 1
\* requests one connection sends before the model stops sending
MaxCalls == 2

(***************************************************************************)
(* Optional values and text.                                               *)
(***************************************************************************)
None == <<>>
Some(v) == <<v>>

\* JavaScript truthiness of an optional string: neither undefined nor "".
Truthy(opt) == opt # None /\ opt[1] # <<>>

Whitespace == {" "}

\* s.trim().length === 0
IsBlank(s) == \A i \in 1..Len(s) : s[i] \in Whitespace

LowerLetters == <<"a","b","c","d","e","f","g","h","i","j","k","l","m",
                  "n","o","p","q","r","s","t","u","v","w","x","y","z">>
UpperLetters == <<"A","B","C","D","E","F","G","H","I","J","K","L","M",
                  "N","O","P","Q","R","S","T","U","V","W","X","Y","Z">>
Digits == {"0","1","2","3","4","5","6","7","8","9"}

LowerSet == {LowerLetters[i] : i \in DOMAIN LowerLetters}
UpperSet == {UpperLetters[i] : i \in DOMAIN UpperLetters}

\* c.toUpperCase() of one character
ToUpperCase(c) ==
    IF c \in LowerSet
      THEN UpperLetters[CHOOSE i \in DOMAIN LowerLetters : LowerLetters[i] = c]
      ELSE c

\* the regular expression class \w
WordChars == LowerSet \cup UpperSet \cup Digits \cup {"_"}
WordChar(c) == c \in WordChars

\* categoryId.replace(/-/g, ' ')
ReplaceHyphens(s) == [i \in 1..Len(s) |-> IF s[i] = "-" THEN " " ELSE s[i]]

\* mutant of TitleCase: only the first character of the text is upper-cased
TitleCaseFirstWordOnly(s) ==
    [i \in 1..Len(s) |-> IF i = 1 THEN ToUpperCase(s[i]) ELSE s[i]]

\* spaced.replace(/\b\w/g, c => c.toUpperCase()): a word character that follows
\* the start of the text or a non-word character is upper-cased
TitleCase(s) ==
    [i \in 1..Len(s) |->
        IF WordChar(s[i]) /\ (i = 1 \/ ~WordChar(s[i-1]))
          THEN ToUpperCase(s[i])
          ELSE s[i]]

HexChars == Digits \cup {"a","b","c","d","e","f","A","B","C","D","E","F"}

\* /^[0-9a-f]{8}-[0-9a-f]{4}-[1-5][0-9a-f]{3}-[89ab][0-9a-f]{3}-[0-9a-f]{12}$/i
isUuid(value) ==
    /\ Truthy(value)
    /\ Len(value[1]) = 36
    /\ \A i \in 1..36 :
         LET c == value[1][i] IN
           IF i \in {9, 14, 19, 24} THEN c = "-"
           ELSE IF i = 15 THEN c \in {"1","2","3","4","5"}
           ELSE IF i = 20 THEN c \in {"8","9","a","b","A","B"}
           ELSE c \in HexChars

HexDigit == <<"1","2","3","4","5","6","7","8","9","a","b","c","d","e","f">>

\* the n-th identifier the store's uuid_generate_v4() hands out
uuid_generate_v4(n) ==
    <<"0","0","0","0","0","0","0",HexDigit[n],"-",
      "0","0","0","0","-",
      "4","0","0","0","-",
      "8","0","0","0","-",
      "0","0","0","0","0","0","0","0","0","0","0","0">>

(***************************************************************************)
(* Dates.  A date string of a request is an ISO-8601 text: a calendar date *)
(* and, optionally, a time of day with a UTC offset (whole hours here).    *)
(***************************************************************************)
IsLeap(y) == (y % 4 = 0 /\ y % 100 # 0) \/ y % 400 = 0

DaysInMonth(y, m) ==
    IF m = 2 THEN (IF IsLeap(y) THEN 29 ELSE 28)
    ELSE IF m \in {4, 6, 9, 11} THEN 30 ELSE 31

NextDay(ymd) ==
    IF ymd[3] < DaysInMonth(ymd[1], ymd[2]) THEN <<ymd[1], ymd[2], ymd[3] + 1>>
    ELSE IF ymd[2] < 12 THEN <<ymd[1], ymd[2] + 1, 1>>
    ELSE <<ymd[1] + 1, 1, 1>>

PrevDay(ymd) ==
    IF ymd[3] > 1 THEN <<ymd[1], ymd[2], ymd[3] - 1>>
    ELSE IF ymd[2] > 1 THEN <<ymd[1], ymd[2] - 1, DaysInMonth(ymd[1], ymd[2] - 1)>>
    ELSE <<ymd[1] - 1, 12, 31>>

\* new Date(s) is Invalid Date, on which toISOString() throws a RangeError
InvalidDate(s) == ~s.valid

\* new Date(s).toISOString().slice(0, 7): the month of the instant in UTC.
\* A date-only text is midnight UTC; a text with an offset is shifted by it.
ToISOMonth(s) ==
    LET utcHour == s.hour - s.offset
        utc == IF ~s.hasTime THEN s.ymd
               ELSE IF utcHour >= 24 THEN NextDay(s.ymd)
               ELSE IF utcHour < 0 THEN PrevDay(s.ymd)
               ELSE s.ymd
    IN <<utc[1], utc[2]>>

\* what a DATE column keeps of the text: the calendar date as written; the
\* time of day and the offset are dropped
DateColumn(s) == s.ymd

\* the YYYY-MM key of a stored date
MonthKey(ymd) == <<ymd[1], ymd[2]>>

DateOnly(y, m, d) ==
    [valid |-> TRUE, ymd |-> <<y, m, d>>, hasTime |-> FALSE, hour |-> 0, offset |-> 0]
DateTime(y, m, d, h, off) ==
    [valid |-> TRUE, ymd |-> <<y, m, d>>, hasTime |-> TRUE, hour |-> h, offset |-> off]
Garbage ==
    [valid |-> FALSE, ymd |-> <<0, 0, 0>>, hasTime |-> FALSE, hour |-> 0, offset |-> 0]

(***************************************************************************)
(* The store.                                                              *)
(***************************************************************************)
Users == {"u1", "u2"}

\* user_id of a row that no account owns (SQL NULL)
NoUser == "null"

\* categories.name is VARCHAR(100)
NameMaxLen == 100

FoodAndGroceries == <<"F","o","o","d"," ","&"," ","G","r","o","c","e","r","i","e","s">>
RentMortgage == <<"R","e","n","t","/","M","o","r","t","g","a","g","e">>
Utilities == <<"U","t","i","l","i","t","i","e","s">>
Transport == <<"T","r","a","n","s","p","o","r","t">>
HealthMedical == <<"H","e","a","l","t","h","/","M","e","d","i","c","a","l">>
Entertainment == <<"E","n","t","e","r","t","a","i","n","m","e","n","t">>
Miscellaneous == <<"M","i","s","c","e","l","l","a","n","e","o","u","s">>

\* INSERT INTO categories (name, color, icon, is_default) VALUES ...
DefaultSeed ==
    << [name |-> FoodAndGroceries, color |-> "#FF6B6B", icon |-> "shopping-cart"],
       [name |-> RentMortgage,     color |-> "#4ECDC4", icon |-> "home"],
       [name |-> Utilities,        color |-> "#45B7D1", icon |-> "zap"],
       [name |-> Transport,        color |-> "#96CEB4", icon |-> "car"],
       [name |-> HealthMedical,    color |-> "#FFEAA7", icon |-> "heart"],
       [name |-> Entertainment,    color |-> "#DDA0DD", icon |-> "music"],
       [name |-> Miscellaneous,    color |-> "#98D8C8", icon |-> "more-horizontal"] >>

NumDefaults == Len(DefaultSeed)

DefaultCategories ==
    { [id |-> uuid_generate_v4(n), name |-> DefaultSeed[n].name,
       color |-> DefaultSeed[n].color, icon |-> DefaultSeed[n].icon,
       is_default |-> TRUE, user_id |-> NoUser] : n \in 1..NumDefaults }

\* the tables one call reads and writes: categories and transactions, each with
\* the count of identifiers the store has handed out for it
Store(cats, cseq, txs, tseq) ==
    [categories |-> cats, catSeq |-> cseq, transactions |-> txs, txSeq |-> tseq]

\* .or(`user_id.eq.${userId},is_default.eq.true`)
Visible(c, userId) == c.user_id = userId \/ c.is_default = TRUE

\* the store's own syntax check of a uuid value: 8-4-4-4-12 hexadecimal digits
IsPgUuid(text) ==
    /\ Len(text) = 36
    /\ \A i \in 1..36 :
         IF i \in {9, 14, 19, 24} THEN text[i] = "-" ELSE text[i] \in HexChars

\* mutant of SelectCategoryById: the visibility filter is left out
SelectCategoryByIdAnyOwner(db, userId, categoryId) ==
    { c \in db.categories : c.id = categoryId }

\* from('categories').select('id,name').eq('id', categoryId).or(visible).maybeSingle()
SelectCategoryById(db, userId, categoryId) ==
    { c \in db.categories : c.id = categoryId /\ Visible(c, userId) }

\* mutant of SelectCategoryByName: the visibility filter is left out
SelectCategoryByNameAnyOwner(db, userId, categoryName) ==
    { c \in db.categories : c.name = categoryName }

\* from('categories').select('id,name').eq('name', categoryName).or(visible).limit(1)
SelectCategoryByName(db, userId, categoryName) ==
    { c \in db.categories : c.name = categoryName /\ Visible(c, userId) }

\* mutant of CategoryInsertRejected: the table has no UNIQUE(name, user_id)
CategoryInsertRejectedByLength(db, userId, name) ==
    Len(name) > NameMaxLen

\* UNIQUE(name, user_id) and VARCHAR(100) of the categories table
CategoryInsertRejected(db, userId, name) ==
    \/ Len(name) > NameMaxLen
    \/ \E c \in db.categories : c.name = name /\ c.user_id = userId

\* mutant of InsertCategory: the row is inserted as a default category without owner
InsertCategoryAsDefault(db, userId, name, color, icon) ==
    IF CategoryInsertRejected(db, userId, name)
      THEN [row |-> None, db |-> db]
      ELSE LET created == [id |-> uuid_generate_v4(db.catSeq + 1), name |-> name,
                           color |-> color, icon |-> icon,
                           is_default |-> TRUE, user_id |-> NoUser]
           IN [row |-> Some(created),
               db |-> [db EXCEPT !.categories = @ \cup {created}, !.catSeq = @ + 1]]

\* from('categories').insert({user_id, name, color, icon, is_default: false}).select().single()
\* [row, db]: row is None when the store rejects the insert
InsertCategory(db, userId, name, color, icon) ==
    IF CategoryInsertRejected(db, userId, name)
      THEN [row |-> None, db |-> db]
      ELSE LET created == [id |-> uuid_generate_v4(db.catSeq + 1), name |-> name,
                           color |-> color, icon |-> icon,
                           is_default |-> FALSE, user_id |-> userId]
           IN [row |-> Some(created),
               db |-> [db EXCEPT !.categories = @ \cup {created}, !.catSeq = @ + 1]]

(***************************************************************************)
(* BudgetService.resolveCategoryId.  The set of outcomes of one call on    *)
(* the store db: [res, db], res being None (null) or Some([id, name]) and  *)
(* db the store afterwards.  More than one outcome exists only where       *)
(* limit(1) may return any of several matching rows.                       *)
(***************************************************************************)
IdName(c) == [id |-> c.id, name |-> c.name]

\* mutant of DerivedName: a valid identifier is taken for a slug too
DerivedNameOfAnyReference(categoryId, categoryName) ==
    IF (~Truthy(categoryName) \/ IsBlank(categoryName[1])) /\ Truthy(categoryId)
      THEN Some(TitleCase(ReplaceHyphens(categoryId[1])))
      ELSE categoryName

\* let derivedName = categoryName; if ((!derivedName || blank) && categoryId && !isUuid) ...
DerivedName(categoryId, categoryName) ==
    IF (~Truthy(categoryName) \/ IsBlank(categoryName[1]))
         /\ Truthy(categoryId) /\ ~isUuid(categoryId)
      THEN Some(TitleCase(ReplaceHyphens(categoryId[1])))
      ELSE categoryName

\* step 3 of the resolver: if (createIfMissing) { ... insert ... } return null
ResolveCreate(db, userId, categoryId, categoryName, createIfMissing) ==
    LET derivedName == DerivedName(categoryId, categoryName) IN
    IF createIfMissing /\ Truthy(derivedName)
      THEN LET ins == InsertCategory(db, userId, derivedName[1],
                                     "#6B7280", "more-horizontal")
           IN {[res |-> IF ins.row = None THEN None ELSE Some(IdName(ins.row[1])),
                db |-> ins.db]}
      ELSE {[res |-> None, db |-> db]}

\* step 2 of the resolver: the lookup by name among the visible categories
ResolveByName(db, userId, categoryId, categoryName, createIfMissing) ==
    LET found == IF Truthy(categoryName) /\ ~IsBlank(categoryName[1])
                   THEN SelectCategoryByName(db, userId, categoryName[1])
                   ELSE {}
    IN IF found # {}
         THEN {[res |-> Some(IdName(c)), db |-> db] : c \in found}
         ELSE ResolveCreate(db, userId, categoryId, categoryName, createIfMissing)

\* mutant of resolveCategoryId: the name is looked up before the identifier
resolveCategoryIdNameFirst(db, userId, categoryId, categoryName, createIfMissing) ==
    LET named == IF Truthy(categoryName) /\ ~IsBlank(categoryName[1])
                   THEN SelectCategoryByName(db, userId, categoryName[1])
                   ELSE {}
        found == IF isUuid(categoryId)
                   THEN SelectCategoryById(db, userId, categoryId[1])
                   ELSE {}
    IN IF named # {}
         THEN {[res |-> Some(IdName(c)), db |-> db] : c \in named}
         ELSE IF found # {}
           THEN {[res |-> Some(IdName(c)), db |-> db] : c \in found}
           ELSE ResolveCreate(db, userId, categoryId, categoryName, createIfMissing)

resolveCategoryId(db, userId, categoryId, categoryName, createIfMissing) ==
    LET found == IF isUuid(categoryId)
                   THEN SelectCategoryById(db, userId, categoryId[1])
                   ELSE {}
    IN IF found # {}
         THEN {[res |-> Some(IdName(c)), db |-> db] : c \in found}
         ELSE ResolveByName(db, userId, categoryId, categoryName, createIfMissing)

(***************************************************************************)
(* The transactions table.                                                 *)
(***************************************************************************)
\* from('transactions').insert({...}).select().single();
\* category_id REFERENCES categories(id)
InsertTransaction(db, fields) ==
    IF ~\E c \in db.categories : c.id = fields.category_id
      THEN [row |-> None, db |-> db]
      ELSE LET created == [id |-> db.txSeq + 1,
                           user_id |-> fields.user_id,
                           category_id |-> fields.category_id,
                           category_name |-> fields.category_name,
                           amount |-> fields.amount,
                           description |-> fields.description,
                           date |-> fields.date,
                           month |-> fields.month]
           IN [row |-> Some(created),
               db |-> [db EXCEPT !.transactions = @ \cup {created}, !.txSeq = @ + 1]]

\* mutant of SelectTransaction: the user_id filter is left out
SelectTransactionAnyOwner(db, userId, transactionId) ==
    { t \in db.transactions : t.id = transactionId }

\* from('transactions').select('*').eq('id', transactionId).eq('user_id', userId).single()
SelectTransaction(db, userId, transactionId) ==
    { t \in db.transactions : t.id = transactionId /\ t.user_id = userId }

\* from('transactions').update({...}).eq('id', transactionId).eq('user_id', userId)
\*   .select().single(): no row is returned when none matches or the category is gone
UpdateTransactionRow(db, userId, transactionId, fields) ==
    LET hit == SelectTransaction(db, userId, transactionId) IN
    IF hit = {} \/ ~\E c \in db.categories : c.id = fields.category_id
      THEN [row |-> None, db |-> db]
      ELSE LET old == CHOOSE t \in hit : TRUE
               new == [old EXCEPT !.category_id = fields.category_id,
                                  !.category_name = fields.category_name,
                                  !.amount = fields.amount,
                                  !.description = fields.description,
                                  !.date = fields.date,
                                  !.month = fields.month]
           IN [row |-> Some(new),
               db |-> [db EXCEPT !.transactions = (@ \ {old}) \cup {new}]]

(***************************************************************************)
(* Outcomes of the service calls on categories and transactions:           *)
(* [status, message, data, resolved, db].  status is the HTTP status of    *)
(* the reply: the success status the controller sends, or the statusCode   *)
(* of the error thrown; db is the store afterwards.                        *)
(***************************************************************************)
Reply(status, message, data, resolved, db) ==
    [status |-> status, message |-> message, data |-> data, resolved |-> resolved,
     db |-> db]

UnknownCategory == "Unknown category. Provide a valid category_id or category_name."

\* mutant of createTransaction: the caller's category_name is stored instead of
\* the resolved one
createTransactionRawName(db, userId, transactionData) ==
    IF InvalidDate(transactionData.date)
      THEN {Reply(500, "Failed to create transaction", None, None, db)}
      ELSE
        { IF r.res = None
            THEN Reply(400, UnknownCategory, None, None, r.db)
            ELSE LET ins == InsertTransaction(r.db,
                                [user_id |-> userId,
                                 category_id |-> r.res[1].id,
                                 category_name |->
                                    IF transactionData.category_name = None THEN <<>>
                                    ELSE transactionData.category_name[1],
                                 amount |-> transactionData.amount,
                                 description |-> transactionData.description,
                                 date |-> DateColumn(transactionData.date),
                                 month |-> ToISOMonth(transactionData.date)])
                 IN IF ins.row = None
                      THEN Reply(500, "Failed to create transaction", None, r.res, r.db)
                      ELSE Reply(201, "Transaction created successfully", ins.row,
                                 r.res, ins.db)
          : r \in resolveCategoryId(db, userId, transactionData.category_id,
                                    transactionData.category_name, TRUE) }

\* BudgetService.createTransaction
createTransaction(db, userId, transactionData) ==
    IF InvalidDate(transactionData.date)
      THEN {Reply(500, "Failed to create transaction", None, None, db)}
      ELSE
        { IF r.res = None
            THEN Reply(400, UnknownCategory, None, None, r.db)
            ELSE LET ins == InsertTransaction(r.db,
                                [user_id |-> userId,
                                 category_id |-> r.res[1].id,
                                 category_name |-> r.res[1].name,
                                 amount |-> transactionData.amount,
                                 description |-> transactionData.description,
                                 date |-> DateColumn(transactionData.date),
                                 month |-> ToISOMonth(transactionData.date)])
                 IN IF ins.row = None
                      THEN Reply(500, "Failed to create transaction", None, r.res, r.db)
                      ELSE Reply(201, "Transaction created successfully", ins.row,
                                 r.res, ins.db)
          : r \in resolveCategoryId(db, userId, transactionData.category_id,
                                    transactionData.category_name, TRUE) }

\* mutant of UpdateWrite: a description the request leaves out is written empty
UpdateWriteBlankingDescription(db, userId, transactionId, updates, existing, cat, resolved) ==
    LET upd == UpdateTransactionRow(db, userId, transactionId,
                   [category_id |-> cat.id,
                    category_name |-> cat.name,
                    amount |-> IF updates.amount = None THEN existing.amount
                               ELSE updates.amount[1],
                    description |-> IF updates.description = None THEN ""
                                      ELSE updates.description[1],
                    date |-> IF updates.date = None THEN existing.date
                             ELSE DateColumn(updates.date[1]),
                    month |-> IF updates.date = None THEN existing.month
                              ELSE ToISOMonth(updates.date[1])])
    IN IF upd.row = None
         THEN Reply(500, "Failed to update transaction", None, resolved, db)
         ELSE Reply(200, "Transaction updated successfully", upd.row, resolved, upd.db)

\* the write of updateTransaction, once the category to use is known
UpdateWrite(db, userId, transactionId, updates, existing, cat, resolved) ==
    LET upd == UpdateTransactionRow(db, userId, transactionId,
                   [category_id |-> cat.id,
                    category_name |-> cat.name,
                    amount |-> IF updates.amount = None THEN existing.amount
                               ELSE updates.amount[1],
                    description |-> IF updates.description = None
                                      THEN existing.description
                                      ELSE updates.description[1],
                    date |-> IF updates.date = None THEN existing.date
                             ELSE DateColumn(updates.date[1]),
                    month |-> IF updates.date = None THEN existing.month
                              ELSE ToISOMonth(updates.date[1])])
    IN IF upd.row = None
         THEN Reply(500, "Failed to update transaction", None, resolved, db)
         ELSE Reply(200, "Transaction updated successfully", upd.row, resolved, upd.db)

\* mutant of updateTransaction: the amount, description and date are written
\* before the category is resolved
updateTransactionWritesFirst(db, userId, transactionId, updates) ==
    LET found == SelectTransaction(db, userId, transactionId) IN
    IF found = {}
      THEN {Reply(404, "Transaction not found", None, None, db)}
      ELSE
        LET existing == CHOOSE t \in found : TRUE
            kept == [id |-> existing.category_id, name |-> existing.category_name]
        IN
        IF updates.date # None /\ InvalidDate(updates.date[1])
          THEN {Reply(500, "Failed to update transaction", None, None, db)}
        ELSE IF Truthy(updates.category_id) \/ Truthy(updates.category_name)
          THEN { IF r.res = None
                   THEN Reply(400, UnknownCategory, None, None,
                              UpdateWrite(r.db, userId, transactionId, updates,
                                          existing, kept, None).db)
                   ELSE UpdateWrite(r.db, userId, transactionId, updates, existing,
                                    r.res[1], r.res)
                 : r \in resolveCategoryId(db, userId, updates.category_id,
                                           updates.category_name, TRUE) }
        ELSE {UpdateWrite(db, userId, transactionId, updates, existing, kept, None)}

\* BudgetService.updateTransaction
updateTransaction(db, userId, transactionId, updates) ==
    LET found == SelectTransaction(db, userId, transactionId) IN
    IF found = {}
      THEN {Reply(404, "Transaction not found", None, None, db)}
      ELSE
        LET existing == CHOOSE t \in found : TRUE IN
        IF updates.date # None /\ InvalidDate(updates.date[1])
          THEN {Reply(500, "Failed to update transaction", None, None, db)}
        ELSE IF Truthy(updates.category_id) \/ Truthy(updates.category_name)
          THEN { IF r.res = None
                   THEN Reply(400, UnknownCategory, None, None, r.db)
                   ELSE UpdateWrite(r.db, userId, transactionId, updates, existing,
                                    r.res[1], r.res)
                 : r \in resolveCategoryId(db, userId, updates.category_id,
                                           updates.category_name, TRUE) }
        ELSE {UpdateWrite(db, userId, transactionId, updates, existing,
                          [id |-> existing.category_id, name |-> existing.category_name],
                          None)}

\* BudgetService.createCategory
createCategory(db, userId, categoryData) ==
    LET ins == InsertCategory(db, userId, categoryData.name, categoryData.color,
                              categoryData.icon)
    IN IF ins.row = None
         THEN Reply(500, "Failed to create category", None, None, db)
         ELSE Reply(201, "Category created successfully", ins.row, None, ins.db)

\* mutant of deleteCategory: the filters on the owner and on is_default are left out
deleteCategoryOfAnyone(db, userId, categoryId) ==
    IF ~IsPgUuid(categoryId)
      THEN Reply(500, "Failed to delete category", None, None, db)
      ELSE LET gone == { c \in db.categories : c.id = categoryId }
           IN Reply(200, "Category deleted successfully", None, None,
                    [db EXCEPT !.categories = @ \ gone,
                               !.transactions =
                                  { t \in @ : \A c \in gone : t.category_id # c.id }])

\* BudgetService.deleteCategory; transactions.category_id is ON DELETE CASCADE
deleteCategory(db, userId, categoryId) ==
    IF ~IsPgUuid(categoryId)
      THEN Reply(500, "Failed to delete category", None, None, db)
      ELSE LET gone == { c \in db.categories : /\ c.id = categoryId
                                               /\ c.user_id = userId
                                               /\ c.is_default = FALSE }
           IN Reply(200, "Category deleted successfully", None, None,
                    [db EXCEPT !.categories = @ \ gone,
                               !.transactions =
                                  { t \in @ : \A c \in gone : t.category_id # c.id }])

(***************************************************************************)
(* The monthly_goals table: [rows, seq], the rows and the count of         *)
(* identifiers handed out.                                                 *)
(***************************************************************************)
\* mutant of UpsertGoal: a plain insert, without the conflict target
UpsertGoalInsertOnly(goals, userId, goalData) ==
    LET created == [id |-> goals.seq + 1, user_id |-> userId,
                    month |-> goalData.month, income |-> goalData.income,
                    expenses |-> goalData.expenses]
    IN [returned |-> {created},
        goals |-> [rows |-> goals.rows \cup {created}, seq |-> goals.seq + 1]]

\* mutant of UpsertGoal: on conflict the new expense list is appended to the old
UpsertGoalMerging(goals, userId, goalData) ==
    LET conflict == { g \in goals.rows :
                        g.user_id = userId /\ g.month = goalData.month }
    IN IF conflict # {}
         THEN LET new == { [g EXCEPT !.income = goalData.income,
                                     !.expenses = @ \o goalData.expenses]
                           : g \in conflict }
              IN [returned |-> new,
                  goals |-> [goals EXCEPT !.rows = (@ \ conflict) \cup new]]
         ELSE LET created == [id |-> goals.seq + 1, user_id |-> userId,
                              month |-> goalData.month, income |-> goalData.income,
                              expenses |-> goalData.expenses]
              IN [returned |-> {created},
                  goals |-> [rows |-> goals.rows \cup {created},
                             seq |-> goals.seq + 1]]

\* from('monthly_goals').upsert({user_id, month, income, expenses, updated_at},
\*   {onConflict: 'user_id,month'}).select().single()
\* [returned, goals]: the rows written and the table afterwards
UpsertGoal(goals, userId, goalData) ==
    LET conflict == { g \in goals.rows :
                        g.user_id = userId /\ g.month = goalData.month }
    IN IF conflict # {}
         THEN LET new == { [g EXCEPT !.income = goalData.income,
                                     !.expenses = goalData.expenses] : g \in conflict }
              IN [returned |-> new,
                  goals |-> [goals EXCEPT !.rows = (@ \ conflict) \cup new]]
         ELSE LET created == [id |-> goals.seq + 1, user_id |-> userId,
                              month |-> goalData.month, income |-> goalData.income,
                              expenses |-> goalData.expenses]
              IN [returned |-> {created},
                  goals |-> [rows |-> goals.rows \cup {created},
                             seq |-> goals.seq + 1]]

\* BudgetService.createMonthlyGoal: .single() fails unless exactly one row returns
createMonthlyGoal(goals, userId, goalData) ==
    LET up == UpsertGoal(goals, userId, goalData) IN
    IF Cardinality(up.returned) # 1
      THEN [status |-> 500, message |-> "Failed to create monthly goal",
            data |-> None, goals |-> up.goals]
      ELSE [status |-> 201, message |-> "Monthly goal created successfully",
            data |-> Some(CHOOSE g \in up.returned : TRUE), goals |-> up.goals]

(***************************************************************************)
(* The numbers of the dashboard.  Amounts are integers; a quotient is kept *)
(* exactly, as the fraction [num, den] in lowest terms with den > 0.       *)
(***************************************************************************)
Abs(n) == IF n < 0 THEN 0 - n ELSE n

RECURSIVE GCD(_, _)
GCD(a, b) == IF b = 0 THEN a ELSE GCD(b, a % b)

\* n / d, for d # 0
Ratio(n, d) ==
    LET g == GCD(Abs(n), Abs(d))
        sign == IF d < 0 THEN 0 - 1 ELSE 1
    IN [num |-> (sign * n) \div g, den |-> (sign * d) \div g]

Zero == Ratio(0, 1)
Hundred == Ratio(100, 1)

\* mutant of Percentage: the quotient is not multiplied by 100
PercentageUnscaled(part, whole) == Ratio(part, whole)

\* (part / whole) * 100
Percentage(part, whole) == Ratio(part * 100, whole)

\* mutant of MinHundred: no clamp
MinHundredUnclamped(r) == r

\* Math.min(r, 100)
MinHundred(r) == IF r.num < 100 * r.den THEN r ELSE Hundred

\* reduce((sum, x) => sum + Number(x.amount), 0) over the values xs[i][field]
RECURSIVE SumOf(_, _)
SumOf(xs, field) ==
    IF xs = <<>> THEN 0 ELSE xs[1][field] + SumOf(Tail(xs), field)

(***************************************************************************)
(* Object.entries(categoryTotals): the keys of an object are enumerated    *)
(* with the array indices ("0", "7", "42": canonical decimals up to        *)
(* 2^32 - 2) first, in ascending numeric order, and the other keys after   *)
(* them in the order in which they were first assigned.                    *)
(***************************************************************************)
MaxArrayIndex == <<"4","2","9","4","9","6","7","2","9","4">>

DigitOrder == <<"0","1","2","3","4","5","6","7","8","9">>
DigitValue(c) == CHOOSE i \in 1..10 : DigitOrder[i] = c

\* a < b for two digit strings of the same length
RECURSIVE DigitsLess(_, _)
DigitsLess(a, b) ==
    IF a = <<>> THEN FALSE
    ELSE IF a[1] # b[1] THEN DigitValue(a[1]) < DigitValue(b[1])
    ELSE DigitsLess(Tail(a), Tail(b))

\* a < b for two canonical decimals
IndexLess(a, b) ==
    Len(a) < Len(b) \/ (Len(a) = Len(b) /\ DigitsLess(a, b))

IsArrayIndex(key) ==
    /\ Len(key) >= 1
    /\ \A i \in 1..Len(key) : key[i] \in Digits
    /\ Len(key) > 1 => key[1] # "0"
    /\ ~IndexLess(MaxArrayIndex, key)

\* the distinct values xs[i].category_name, in the order of their first occurrence
RECURSIVE FirstSeen(_)
FirstSeen(xs) ==
    IF xs = <<>> THEN <<>>
    ELSE LET before == FirstSeen(SubSeq(xs, 1, Len(xs) - 1))
             name == xs[Len(xs)].category_name
         IN IF \E i \in 1..Len(before) : before[i] = name
              THEN before ELSE Append(before, name)

\* the sequence keys with key inserted before the first array index greater than it
RECURSIVE InsertIndex(_, _)
InsertIndex(keys, key) ==
    IF keys = <<>> THEN <<key>>
    ELSE IF IndexLess(key, keys[1]) THEN <<key>> \o keys
    ELSE <<keys[1]>> \o InsertIndex(Tail(keys), key)

RECURSIVE SortIndices(_)
SortIndices(keys) ==
    IF keys = <<>> THEN <<>>
    ELSE InsertIndex(SortIndices(SubSeq(keys, 1, Len(keys) - 1)), keys[Len(keys)])

\* mutant of OwnKeys: every key in the order of its first assignment
OwnKeysAsInserted(inserted) == inserted

\* the own keys of the object whose keys were assigned in the order inserted
OwnKeys(inserted) ==
    SortIndices(SelectSeq(inserted, IsArrayIndex))
      \o SelectSeq(inserted, LAMBDA k : ~IsArrayIndex(k))

\* acc[name] after the reduce of lines 609-612
CategoryTotal(transactionList, name) ==
    SumOf(SelectSeq(transactionList, LAMBDA t : t.category_name = name), "amount")

\* Object.entries(categoryTotals).map(...): [category_name, amount, percentage]
Entries(transactionList, totalExpenses) ==
    LET keys == OwnKeys(FirstSeen(transactionList)) IN
    [i \in 1..Len(keys) |->
       LET amount == CategoryTotal(transactionList, keys[i]) IN
       [category_name |-> keys[i],
        amount |-> amount,
        percentage |-> IF totalExpenses > 0 THEN Percentage(amount, totalExpenses)
                       ELSE Zero]]

\* .sort((a, b) => b.amount - a.amount): stable, an entry goes behind the
\* entries of the same amount that precede it
RECURSIVE InsertByAmount(_, _)
InsertByAmount(sorted, e) ==
    IF sorted = <<>> THEN <<e>>
    ELSE IF sorted[1].amount < e.amount THEN <<e>> \o sorted
    ELSE <<sorted[1]>> \o InsertByAmount(Tail(sorted), e)

\* mutant of SortByAmount: the entries are left in the order of the keys
SortByAmountUnsorted(es) == es

RECURSIVE SortByAmount(_)
SortByAmount(es) ==
    IF es = <<>> THEN <<>>
    ELSE InsertByAmount(SortByAmount(SubSeq(es, 1, Len(es) - 1)), es[Len(es)])

\* .slice(0, 5)
TopCount == 5
Slice(xs, n) == SubSeq(xs, 1, IF Len(xs) < n THEN Len(xs) ELSE n)

\* mutant of DashboardSummary: actualSavings is taken from the expected expenses
DashboardSummaryExpectedSavingsTwice(monthlyGoal, transactionList) ==
    LET totalIncome == IF monthlyGoal = None THEN 0 ELSE monthlyGoal[1].income
        totalExpenses == SumOf(transactionList, "amount")
        totalExpectedExpenses ==
            IF monthlyGoal = None THEN 0
            ELSE SumOf(monthlyGoal[1].expenses, "expected_amount")
    IN [monthlyGoal |-> monthlyGoal,
        transactions |-> transactionList,
        totalIncome |-> totalIncome,
        totalExpenses |-> totalExpenses,
        actualSavings |-> totalIncome - totalExpectedExpenses,
        expectedSavings |-> totalIncome - totalExpectedExpenses,
        topCategories |->
            Slice(SortByAmount(Entries(transactionList, totalExpenses)), TopCount),
        monthlyProgress |->
            IF totalExpectedExpenses > 0
              THEN MinHundred(Percentage(totalExpenses, totalExpectedExpenses))
              ELSE Zero]

\* the computation of BudgetService.getDashboardSummary on the goal (None when
\* there is none) and the transaction list it has read
DashboardSummary(monthlyGoal, transactionList) ==
    LET totalIncome == IF monthlyGoal = None THEN 0 ELSE monthlyGoal[1].income
        totalExpenses == SumOf(transactionList, "amount")
        totalExpectedExpenses ==
            IF monthlyGoal = None THEN 0
            ELSE SumOf(monthlyGoal[1].expenses, "expected_amount")
    IN [monthlyGoal |-> monthlyGoal,
        transactions |-> transactionList,
        totalIncome |-> totalIncome,
        totalExpenses |-> totalExpenses,
        actualSavings |-> totalIncome - totalExpenses,
        expectedSavings |-> totalIncome - totalExpectedExpenses,
        topCategories |->
            Slice(SortByAmount(Entries(transactionList, totalExpenses)), TopCount),
        monthlyProgress |->
            IF totalExpectedExpenses > 0
              THEN MinHundred(Percentage(totalExpenses, totalExpectedExpenses))
              ELSE Zero]

\* from('monthly_goals').select('*').eq('user_id', userId).eq('month', currentMonth)
\*   .single(); no row gives null
getCurrentMonthlyGoal(goals, userId, currentMonth) ==
    LET found == { g \in goals.rows : g.user_id = userId /\ g.month = currentMonth }
    IN IF found = {} THEN None ELSE Some(CHOOSE g \in found : TRUE)

\* a <= b for two dates <<y, m, d>>
DateLeq(a, b) ==
    \/ a[1] < b[1]
    \/ a[1] = b[1] /\ a[2] < b[2]
    \/ a[1] = b[1] /\ a[2] = b[2] /\ a[3] <= b[3]

\* .order('date', {ascending: false}): the rows of one date come in any order
RECURSIVE OrderByDateDesc(_)
OrderByDateDesc(rows) ==
    IF rows = {} THEN {<<>>}
    ELSE UNION { { <<t>> \o rest : rest \in OrderByDateDesc(rows \ {t}) }
                 : t \in { x \in rows : \A u \in rows : DateLeq(u.date, x.date) } }

\* mutant of getCurrentMonthTransactions: each row carries the name its category
\* has now
getCurrentMonthTransactionsJoined(db, userId, currentMonth) ==
    OrderByDateDesc({ [t EXCEPT !.category_name =
                                   (CHOOSE c \in db.categories : c.id = t.category_id).name]
                      : t \in { x \in db.transactions :
                                  x.user_id = userId /\ x.month = currentMonth } })

\* mutant of getCurrentMonthTransactions: no filter on the owner
getCurrentMonthTransactionsOfAll(db, userId, currentMonth) ==
    OrderByDateDesc({ t \in db.transactions : t.month = currentMonth })

\* from('transactions').select('*').eq('user_id', userId).eq('month', currentMonth)
\*   .order('date', {ascending: false}): the lists the read may return
getCurrentMonthTransactions(db, userId, currentMonth) ==
    OrderByDateDesc({ t \in db.transactions :
                        t.user_id = userId /\ t.month = currentMonth })

\* BudgetService.getDashboardSummary: the summaries the call may return
getDashboardSummary(db, goals, userId, currentMonth) ==
    { DashboardSummary(getCurrentMonthlyGoal(goals, userId, currentMonth),
                       transactionList)
      : transactionList \in getCurrentMonthTransactions(db, userId, currentMonth) }

\* mutant of getUserCategories: no filter
getUserCategoriesUnfiltered(db, userId) == db.categories

\* BudgetService.getUserCategories: the rows returned; the two order clauses
\* arrange them and select nothing
getUserCategories(db, userId) ==
    { c \in db.categories : c.user_id = userId \/ c.is_default = TRUE }

(***************************************************************************)
(* The requests the model issues.                                          *)
(***************************************************************************)
FoodGroceriesSlug == <<"f","o","o","d","-","g","r","o","c","e","r","i","e","s">>
FoodGroceries == <<"F","o","o","d"," ","G","r","o","c","e","r","i","e","s">>
HyphensOnly == <<"-","-","-">>
Blank == <<" ">>

\* identifiers of the user categories the store can hand out within the bounds
UserCategoryIds ==
    { uuid_generate_v4(n) : n \in (NumDefaults + 1)..(NumDefaults + MaxCategories) }

CategoryIdTexts ==
    {uuid_generate_v4(1)} \cup UserCategoryIds \cup {FoodGroceriesSlug, HyphensOnly}

CategoryRefs == {None} \cup {Some(x) : x \in CategoryIdTexts}

CategoryNames == {None, Some(Blank), Some(FoodGroceries), Some(Utilities)}

\* the (category_id, category_name) pairs the requests carry
CategoryArgs ==
    {<<None, None>>, <<None, Some(Blank)>>, <<None, Some(FoodGroceries)>>,
     <<None, Some(Utilities)>>, <<Some(uuid_generate_v4(1)), None>>,
     <<Some(FoodGroceriesSlug), None>>, <<Some(HyphensOnly), None>>}
      \cup {<<Some(x), None>> : x \in UserCategoryIds}
      \cup {<<Some(x), Some(FoodGroceries)>> : x \in UserCategoryIds}

MidMay == DateOnly(2024, 5, 15)
FirstOfJune == DateOnly(2024, 6, 1)
\* "2024-05-31T23:00:00-05:00"
LateMayEvening == DateTime(2024, 5, 31, 23, 0 - 5)

CreateDates == {MidMay, LateMayEvening, Garbage}

CreateRequests ==
    { [category_id |-> c[1], category_name |-> c[2],
       amount |-> 10, description |-> "lunch", date |-> d]
      : c \in CategoryArgs, d \in CreateDates }

\* the (amount, description, date) triples the update requests carry
FieldArgs ==
    {<<None, None, None>>, <<Some(25), None, None>>, <<None, Some("dinner"), None>>,
     <<None, None, Some(FirstOfJune)>>, <<Some(25), Some("dinner"), Some(FirstOfJune)>>,
     <<None, None, Some(Garbage)>>}

UpdateRequests ==
    { [category_id |-> c[1], category_name |-> c[2],
       amount |-> f[1], description |-> f[2], date |-> f[3]]
      : c \in CategoryArgs, f \in FieldArgs }

TransactionIds == 1..(MaxTransactions + 1)

CategoryRequests ==
    [name : {FoodGroceries, Utilities}, color : {"#112233"}, icon : {"star"}]

GoalMonths == {<<2024, 5>>, <<2024, 6>>}

RentExpense == [category_id |-> "rent", category_name |-> "Rent", expected_amount |-> 700]
FoodExpense == [category_id |-> "food", category_name |-> "Food", expected_amount |-> 300]

GoalRequests ==
    [month : GoalMonths, income : {1000, 2000},
     expenses : {<<>>, <<RentExpense>>, <<FoodExpense, RentExpense>>}]

(***************************************************************************)
(* Calls in flight and accounts.                                           *)
(***************************************************************************)
\* the connections whose requests the server works on at the same time
Procs == {1, 2}

\* a connection that has sent no request yet.  Of a call: op and request say
\* what was asked, by user_id; pc is the store call it issues next ("done"
\* once it has returned or thrown, with status, message and data); existing,
\* category, goal and list are the local variables of the method; created is
\* the id of a category the resolver inserted; issued lists the store calls
\* issued, failed those that returned an error, faults those that failed for
\* a reason outside the data; seen holds the contents of monthly_goals and
\* transactions at each instant since a dashboard request began; n counts the
\* requests of the connection
Idle ==
    [op |-> "idle", pc |-> "done", user_id |-> NoUser, request |-> None, n |-> 0,
     existing |-> None, category |-> None, created |-> None,
     goal |-> None, list |-> None, seen |-> {},
     issued |-> <<>>, failed |-> <<>>, faults |-> <<>>,
     status |-> 0, message |-> "", data |-> None]

\* the users table: two active accounts and one that has been deactivated
Accounts ==
    { [id |-> "u1", email |-> <<"a","n","n","@","x">>, name |-> "Ann",
       is_active |-> TRUE],
      [id |-> "u2", email |-> <<"b","o","b","@","x">>, name |-> "Bob",
       is_active |-> TRUE],
      [id |-> "u3", email |-> <<"e","v","e","@","x">>, name |-> "Eve",
       is_active |-> FALSE] }

(***************************************************************************)
(* The state machine.                                                      *)
(***************************************************************************)
Init ==
    /\ categories = DefaultCategories
    /\ transactions = {}
    /\ monthly_goals = {}
    /\ catSeq = NumDefaults
    /\ txSeq = 0
    /\ goalSeq = 0
    /\ dashboard = None
    /\ calls = [p \in Procs |-> Idle]
    /\ store_up = TRUE
    /\ users = Accounts
    /\ auth_users = { [id |-> a.id, email |-> a.email, password |-> "secret"]
                      : a \in Accounts }
    /\ request = None

\* the store as it is now
Db == Store(categories, catSeq, transactions, txSeq)
Goals == [rows |-> monthly_goals, seq |-> goalSeq]

\* the store takes the outcome o of a category/transaction call
Commit(o) ==
    /\ o.db.catSeq <= NumDefaults + MaxCategories
    /\ o.db.txSeq <= MaxTransactions
    /\ categories' = o.db.categories
    /\ catSeq' = o.db.catSeq
    /\ transactions' = o.db.transactions
    /\ txSeq' = o.db.txSeq
    /\ UNCHANGED <<monthly_goals, goalSeq, dashboard, calls, store_up, users, auth_users,
                 request>>

CreateTransaction ==
    \E userId \in Users, transactionData \in CreateRequests :
      \E o \in createTransaction(Db, userId, transactionData) :
        Commit(o)

UpdateTransaction ==
    \E userId \in Users, transactionId \in TransactionIds, updates \in UpdateRequests :
      \E o \in updateTransaction(Db, userId, transactionId, updates) :
        Commit(o)

CreateCategory ==
    \E userId \in Users, categoryData \in CategoryRequests :
      Commit(createCategory(Db, userId, categoryData))

DeleteCategory ==
    \E userId \in Users, categoryId \in CategoryIdTexts :
      Commit(deleteCategory(Db, userId, categoryId))

CreateMonthlyGoal ==
    \E userId \in Users, goalData \in GoalRequests :
      LET o == createMonthlyGoal(Goals, userId, goalData) IN
        /\ monthly_goals' = o.goals.rows
        /\ goalSeq' = o.goals.seq
        /\ UNCHANGED <<categories, catSeq, transactions, txSeq, dashboard,
                       calls, store_up, users, auth_users, request>>

\* the calls on categories and transactions
Next ==
    \/ CreateTransaction
    \/ UpdateTransaction
    \/ CreateCategory
    \/ DeleteCategory

Spec == Init /\ [][Next]_vars

\* the calls on monthly goals
NextGoals == CreateMonthlyGoal

SpecGoals == Init /\ [][NextGoals]_vars

(***************************************************************************)
(* The dashboard, asked on stores that hold a month of transactions.  A    *)
(* spending list <<name, amount>>, ... stands for the transactions of u1   *)
(* in May 2024, newest first; its categories are the defaults and the      *)
(* categories of u1 that the names not among the defaults needed.          *)
(***************************************************************************)
\* the category sums A:30, B:50, C:20, D:10, E:5, F:40
SixCategories ==
    {<<<<"A">>, 30>>, <<<<"B">>, 50>>, <<<<"C">>, 20>>,
     <<<<"D">>, 10>>, <<<<"E">>, 5>>, <<<<"F">>, 40>>}

\* every order of the elements of the set S
RECURSIVE Orders(_)
Orders(S) ==
    IF S = {} THEN {<<>>}
    ELSE UNION { { <<x>> \o rest : rest \in Orders(S \ {x}) } : x \in S }

MaxShortList == 3

ShortEntries ==
    {<<"A">>, <<"2">>, <<"1","0">>, <<"0","1">>} \X {0 - 20, 0, 10}

ShortLists ==
    UNION { [1..n -> ShortEntries] : n \in 0..MaxShortList }

SpendingLists == Orders(SixCategories) \cup ShortLists

SnackExpense ==
    [category_id |-> "snack", category_name |-> "Snack", expected_amount |-> 100]

\* the goals of u1 for May 2024: none, one without and one with expected expenses
DashboardGoals ==
    { {},
      {[id |-> 1, user_id |-> "u1", month |-> <<2024, 5>>, income |-> 1000,
        expenses |-> <<>>]},
      {[id |-> 1, user_id |-> "u1", month |-> <<2024, 5>>, income |-> 1000,
        expenses |-> <<SnackExpense>>]} }

\* the names of list in the order of their first occurrence
ListNames(list) ==
    FirstSeen([i \in 1..Len(list) |-> [category_name |-> list[i][1]]])

\* the categories of u1 that the resolver has created for the names of list
ListCategories(list) ==
    LET names == ListNames(list) IN
    { [id |-> uuid_generate_v4(NumDefaults + i), name |-> names[i],
       color |-> "#6B7280", icon |-> "more-horizontal",
       is_default |-> FALSE, user_id |-> "u1"] : i \in 1..Len(names) }

\* the transactions of u1 that list stands for, and one of u2
ListTransactions(list) ==
    { [id |-> i, user_id |-> "u1",
       category_id |-> (CHOOSE c \in ListCategories(list) : c.name = list[i][1]).id,
       category_name |-> list[i][1],
       amount |-> list[i][2], description |-> "lunch",
       date |-> <<2024, 5, 28 - i>>, month |-> <<2024, 5>>] : i \in 1..Len(list) }
      \cup
    { [id |-> Len(list) + 1, user_id |-> "u2",
       category_id |-> uuid_generate_v4(3), category_name |-> Utilities,
       amount |-> 999, description |-> "power",
       date |-> <<2024, 5, 15>>, month |-> <<2024, 5>>] }

InitDashboard ==
    \E list \in SpendingLists, goals \in DashboardGoals :
      /\ categories = DefaultCategories \cup ListCategories(list)
      /\ catSeq = NumDefaults + Len(ListNames(list))
      /\ transactions = ListTransactions(list)
      /\ txSeq = Len(list) + 1
      /\ monthly_goals = goals
      /\ goalSeq = Cardinality(goals)
      /\ dashboard = None
      /\ calls = [p \in Procs |-> Idle]
      /\ store_up = TRUE
      /\ users = Accounts
      /\ auth_users = { [id |-> a.id, email |-> a.email, password |-> "secret"]
                        : a \in Accounts }
      /\ request = None

\* the months the clock of getCurrentMonthlyGoal / getCurrentMonthTransactions shows
CurrentMonths == GoalMonths

GetDashboardSummary ==
    \E userId \in Users, currentMonth \in CurrentMonths :
      \E summary \in getDashboardSummary(Db, Goals, userId, currentMonth) :
        /\ dashboard' = Some([user_id |-> userId, month |-> currentMonth,
                              summary |-> summary])
        /\ UNCHANGED <<categories, catSeq, transactions, txSeq, monthly_goals, goalSeq,
                       calls, store_up, users, auth_users, request>>

NextDashboard == GetDashboardSummary

SpecDashboard == InitDashboard /\ [][NextDashboard]_vars

(***************************************************************************)
(* The service methods, one store call at a time.  Every await of a store  *)
(* call is a point where the other connection may run.  While the store   *)
(* is not up, a store call returns an error and changes nothing.           *)
(***************************************************************************)
\* the requests of the connections: [op, id, body]
StepRequests ==
    LET update(categoryName, amount, description) ==
          [op |-> "updateTransaction", id |-> 1,
           body |-> [category_id |-> None, category_name |-> categoryName,
                     amount |-> amount, description |-> description, date |-> None]]
        goal(income) ==
          [op |-> "createMonthlyGoal", id |-> None,
           body |-> [month |-> <<2024, 5>>, income |-> income, expenses |-> <<>>]]
    IN << [op |-> "createTransaction", id |-> None,
           body |-> [category_id |-> None, category_name |-> Some(FoodGroceries),
                     amount |-> 10, description |-> "lunch", date |-> MidMay]],
          update(None, Some(25), None),
          update(None, None, Some("dinner")),
          update(Some(FoodGroceries), None, None),
          goal(1000),
          goal(2000),
          [op |-> "getDashboardSummary", id |-> None, body |-> <<2024, 5>>],
          [op |-> "createCategory", id |-> None,
           body |-> [name |-> FoodGroceries, color |-> "#112233", icon |-> "star"]],
          [op |-> "deleteCategory", id |-> uuid_generate_v4(NumDefaults + 1),
           body |-> None] >>

\* the method returns, or throws an error that carries status
Finish(c, status, message, data) ==
    [c EXCEPT !.pc = "done", !.status = status, !.message = message, !.data = data]

\* resolveCategoryId has returned res to createTransaction / updateTransaction
Resolved(c, res) ==
    IF res = None
      THEN Finish(c, 400, UnknownCategory, None)
      ELSE [c EXCEPT !.category = res,
                     !.pc = IF c.op = "createTransaction" THEN "insertTransaction"
                            ELSE "update"]

\* the call moves on to the next store call of resolveCategoryId: stage is
\* "start", "afterId" (the lookup by id gave nothing) or "afterName"
Resolving(c, stage) ==
    LET categoryId == c.request.body.category_id
        categoryName == c.request.body.category_name
    IN IF stage = "start" /\ isUuid(categoryId)
         THEN [c EXCEPT !.pc = "byId"]
       ELSE IF stage # "afterName" /\ Truthy(categoryName) /\ ~IsBlank(categoryName[1])
         THEN [c EXCEPT !.pc = "byName"]
       ELSE IF Truthy(DerivedName(categoryId, categoryName))
         THEN [c EXCEPT !.pc = "insertCategory"]
       ELSE Resolved(c, None)

\* connection p has issued the store call named by its pc: c is its call and
\* db, goals the store afterwards
Take(p, c, db, goals) ==
    LET was == calls[p]
        now == [c EXCEPT !.issued = Append(@, was.pc),
                         !.faults = IF store_up THEN @ ELSE Append(@, was.pc)]
    IN
    /\ db.catSeq <= NumDefaults + MaxCategories
    /\ db.txSeq <= MaxTransactions
    /\ calls' = [q \in Procs |->
                   LET d == IF q = p THEN now ELSE calls[q] IN
                   IF d.op = "getDashboardSummary" /\ d.pc # "done"
                     THEN [d EXCEPT !.seen = @ \cup {<<goals.rows, db.transactions>>}]
                     ELSE d]
    /\ categories' = db.categories
    /\ catSeq' = db.catSeq
    /\ transactions' = db.transactions
    /\ txSeq' = db.txSeq
    /\ monthly_goals' = goals.rows
    /\ goalSeq' = goals.seq
    /\ UNCHANGED <<dashboard, store_up, users, auth_users, request>>

\* a connection sends its next request; the method runs up to its first store call
BeginCall ==
    \E p \in Procs, userId \in Users, i \in DOMAIN StepRequests :
      /\ calls[p].pc = "done"
      /\ calls[p].n < MaxCalls
      /\ LET r == StepRequests[i]
             c == [Idle EXCEPT !.op = r.op, !.user_id = userId, !.request = r,
                               !.n = calls[p].n + 1]
             first ==
               CASE r.op = "createTransaction" ->
                      IF InvalidDate(r.body.date)
                        THEN Finish(c, 500, "Failed to create transaction", None)
                        ELSE Resolving(c, "start")
                 [] r.op = "updateTransaction" -> [c EXCEPT !.pc = "select"]
                 [] r.op = "createMonthlyGoal" -> [c EXCEPT !.pc = "upsert"]
                 [] r.op = "getDashboardSummary" ->
                      [c EXCEPT !.pc = "reads",
                                !.seen = {<<monthly_goals, transactions>>}]
                 [] r.op = "createCategory" -> [c EXCEPT !.pc = "insert"]
                 [] r.op = "deleteCategory" -> [c EXCEPT !.pc = "delete"]
         IN calls' = [calls EXCEPT ![p] = first]
      /\ UNCHANGED <<categories, catSeq, transactions, txSeq, monthly_goals, goalSeq,
                     dashboard, store_up, users, auth_users, request>>

\* resolveCategoryId: the lookup by id, or the lookup by name; an error or no
\* row sends the method on to its next step
SelectCategoryStep ==
    \E p \in Procs :
      LET c == calls[p]
          found == IF ~store_up THEN {}
                   ELSE IF c.pc = "byId"
                     THEN SelectCategoryById(Db, c.user_id, c.request.body.category_id[1])
                     ELSE SelectCategoryByName(Db, c.user_id,
                                               c.request.body.category_name[1])
          e == IF found = {} THEN [c EXCEPT !.failed = Append(@, c.pc)] ELSE c
      IN /\ c.pc \in {"byId", "byName"}
         /\ \E next \in IF found # {}
                          THEN { Resolved(c, Some(IdName(x))) : x \in found }
                          ELSE { Resolving(e, IF c.pc = "byId" THEN "afterId"
                                              ELSE "afterName") } :
              Take(p, next, Db, Goals)

\* resolveCategoryId: the insert of the missing category; an error gives null
InsertCategoryStep ==
    \E p \in Procs :
      LET c == calls[p]
          derivedName == DerivedName(c.request.body.category_id,
                                     c.request.body.category_name)
          ins == IF store_up THEN InsertCategory(Db, c.user_id, derivedName[1],
                                           "#6B7280", "more-horizontal")
                 ELSE [row |-> None, db |-> Db]
      IN /\ c.pc = "insertCategory"
         /\ Take(p,
                 IF ins.row = None
                   THEN Resolved([c EXCEPT !.failed = Append(@, c.pc)], None)
                   ELSE Resolved([c EXCEPT !.created = Some(ins.row[1].id)],
                                 Some(IdName(ins.row[1]))),
                 ins.db, Goals)

\* createTransaction: the insert into transactions
InsertTransactionStep ==
    \E p \in Procs :
      LET c == calls[p]
          transactionData == c.request.body
          ins == IF store_up THEN InsertTransaction(Db,
                              [user_id |-> c.user_id,
                               category_id |-> c.category[1].id,
                               category_name |-> c.category[1].name,
                               amount |-> transactionData.amount,
                               description |-> transactionData.description,
                               date |-> DateColumn(transactionData.date),
                               month |-> ToISOMonth(transactionData.date)])
                 ELSE [row |-> None, db |-> Db]
      IN /\ c.pc = "insertTransaction"
         /\ Take(p,
                 IF ins.row = None
                   THEN Finish([c EXCEPT !.failed = Append(@, c.pc)], 500,
                               "Failed to create transaction", None)
                   ELSE Finish(c, 201, "Transaction created successfully", ins.row),
                 ins.db, Goals)

\* updateTransaction: the read of the transaction to update
SelectTransactionStep ==
    \E p \in Procs :
      LET c == calls[p]
          updates == c.request.body
          found == IF store_up THEN SelectTransaction(Db, c.user_id, c.request.id) ELSE {}
          existing == CHOOSE t \in found : TRUE
          e == [c EXCEPT !.existing = Some(existing)]
      IN /\ c.pc = "select"
         /\ Take(p,
                 IF found = {}
                   THEN Finish([c EXCEPT !.failed = Append(@, c.pc)], 404,
                               "Transaction not found", None)
                 ELSE IF updates.date # None /\ InvalidDate(updates.date[1])
                   THEN Finish(e, 500, "Failed to update transaction", None)
                 ELSE IF Truthy(updates.category_id) \/ Truthy(updates.category_name)
                   THEN Resolving(e, "start")
                 ELSE [e EXCEPT !.category = Some([id |-> existing.category_id,
                                                   name |-> existing.category_name]),
                                !.pc = "update"],
                 Db, Goals)

\* updateTransaction: the update of the row, with the values read before
UpdateTransactionStep ==
    \E p \in Procs :
      LET c == calls[p]
          o == IF store_up THEN UpdateWrite(Db, c.user_id, c.request.id, c.request.body,
                                      c.existing[1], c.category[1], c.category)
               ELSE Reply(500, "Failed to update transaction", None, None, Db)
      IN /\ c.pc = "update"
         /\ Take(p,
                 Finish(IF o.status = 200 THEN c
                        ELSE [c EXCEPT !.failed = Append(@, c.pc)],
                        o.status, o.message, o.data),
                 o.db, Goals)

\* createMonthlyGoal: the upsert
UpsertGoalStep ==
    \E p \in Procs :
      LET c == calls[p]
          o == IF store_up THEN createMonthlyGoal(Goals, c.user_id, c.request.body)
               ELSE [status |-> 500, message |-> "Failed to create monthly goal",
                     data |-> None, goals |-> Goals]
      IN /\ c.pc = "upsert"
         /\ Take(p,
                 Finish(IF o.status = 201 THEN c
                        ELSE [c EXCEPT !.failed = Append(@, c.pc)],
                        o.status, o.message, o.data),
                 Db, o.goals)

\* getDashboardSummary: Promise.all starts the read of the goal and the read
\* of the transactions, and the store answers them in either order; the
\* summary is computed when both have answered, and the first error ends
\* the call
DashboardReadStep ==
    \E p \in Procs, read \in {"goal", "transactions"} :
      LET c == calls[p]
          currentMonth == c.request.body
          answers ==
            IF read = "goal"
              THEN { [c EXCEPT !.goal =
                         Some(getCurrentMonthlyGoal(Goals, c.user_id, currentMonth))] }
              ELSE { [c EXCEPT !.list = Some(transactionList)]
                     : transactionList \in
                         getCurrentMonthTransactions(Db, c.user_id, currentMonth) }
      IN /\ c.pc = "reads"
         /\ IF read = "goal" THEN c.goal = None ELSE c.list = None
         /\ \E e \in answers :
              Take(p,
                   IF ~store_up
                     THEN Finish([c EXCEPT !.failed = Append(@, read)], 500,
                                 IF read = "goal" THEN "Failed to fetch monthly goal"
                                 ELSE "Failed to fetch transactions", None)
                   ELSE IF e.goal # None /\ e.list # None
                     THEN Finish(e, 200, "Dashboard summary retrieved successfully",
                                 Some(DashboardSummary(e.goal[1], e.list[1])))
                   ELSE e,
                   Db, Goals)

\* createCategory and deleteCategory: one store call each
CategoryStep ==
    \E p \in Procs :
      LET c == calls[p]
          o == IF c.pc = "insert"
                 THEN IF store_up THEN createCategory(Db, c.user_id, c.request.body)
                      ELSE Reply(500, "Failed to create category", None, None, Db)
                 ELSE IF store_up THEN deleteCategory(Db, c.user_id, c.request.id)
                      ELSE Reply(500, "Failed to delete category", None, None, Db)
      IN /\ c.pc \in {"insert", "delete"}
         /\ Take(p,
                 Finish(IF o.status = 500 THEN [c EXCEPT !.failed = Append(@, c.pc)]
                        ELSE c,
                        o.status, o.message, o.data),
                 o.db, Goals)

NextSteps ==
    \/ BeginCall
    \/ SelectCategoryStep
    \/ InsertCategoryStep
    \/ InsertTransactionStep
    \/ SelectTransactionStep
    \/ UpdateTransactionStep
    \/ UpsertGoalStep
    \/ DashboardReadStep
    \/ CategoryStep

SpecSteps == Init /\ [][NextSteps]_vars

(***************************************************************************)
(* The same methods on a store that fails now and then, for the requests   *)
(* of one connection.                                                      *)
(***************************************************************************)
InitFaults ==
    /\ categories = DefaultCategories
    /\ transactions = {}
    /\ monthly_goals = {}
    /\ catSeq = NumDefaults
    /\ txSeq = 0
    /\ goalSeq = 0
    /\ dashboard = None
    /\ calls = [p \in Procs |-> IF p = 1 THEN Idle ELSE [Idle EXCEPT !.n = MaxCalls]]
    /\ store_up = TRUE
    /\ users = Accounts
    /\ auth_users = { [id |-> a.id, email |-> a.email, password |-> "secret"]
                      : a \in Accounts }
    /\ request = None

\* the store becomes unreachable, or reachable again
StoreFault ==
    /\ store_up' = ~store_up
    /\ UNCHANGED <<categories, catSeq, transactions, txSeq, monthly_goals, goalSeq,
                   dashboard, calls, users, auth_users, request>>

NextFaults == NextSteps \/ StoreFault

SpecFaults == InitFaults /\ [][NextFaults]_vars

(***************************************************************************)
(* Authentication and accounts.  One request at a time travels from the    *)
(* router through authenticateToken to its handler.  An access token is    *)
(* described by what its verification yields: its kind ("supabase" for one *)
(* issued by the identity provider, "legacy" for one signed with           *)
(* JWT_SECRET, "garbage" for any other text, "empty" for the empty text),  *)
(* the account it names, and whether it is expired.  The Authorization     *)
(* header is the list of its parts between blanks; no header is the empty  *)
(* list.                                                                   *)
(***************************************************************************)

\* email.toLowerCase()
toLowerCase(s) ==
    [i \in 1..Len(s) |->
        IF s[i] \in UpperSet
          THEN LowerLetters[CHOOSE k \in DOMAIN UpperLetters : UpperLetters[k] = s[i]]
          ELSE s[i]]

\* mutant of authenticateToken: the users lookup has no eq('is_active', true)
authenticateTokenOfAnyAccount(authorization, usersTable, authUsers, up) ==
    LET token == IF Len(authorization) >= 2 THEN authorization[2]
                 ELSE [kind |-> "empty", sub |-> NoUser, expired |-> FALSE]
        getUser == /\ token.kind = "supabase" /\ ~token.expired
                   /\ \E a \in authUsers : a.id = token.sub
        verified == token.kind = "legacy" /\ ~token.expired
        found == IF up THEN { u \in usersTable : u.id = token.sub } ELSE {}
        reject(error) == [next |-> FALSE, status |-> 401, error |-> error, user |-> None]
    IN IF token.kind = "empty" THEN reject("Access token required")
       ELSE IF ~getUser /\ ~verified THEN reject("Invalid token")
       ELSE IF found = {} THEN reject("Invalid token or user not found")
       ELSE [next |-> TRUE, status |-> 0, error |-> "",
             user |-> Some(CHOOSE u \in found : TRUE)]

\* authenticateToken: token = authHeader && authHeader.split(' ')[1]; the
\* identity provider's getUser first, jwt.verify with JWT_SECRET when it
\* refuses (it throws a JsonWebTokenError for an expired or foreign token);
\* then the active users row of the account the token names
authenticateToken(authorization, usersTable, authUsers, up) ==
    LET token == IF Len(authorization) >= 2 THEN authorization[2]
                 ELSE [kind |-> "empty", sub |-> NoUser, expired |-> FALSE]
        getUser == /\ token.kind = "supabase" /\ ~token.expired
                   /\ \E a \in authUsers : a.id = token.sub
        verified == token.kind = "legacy" /\ ~token.expired
        found == IF up THEN { u \in usersTable : u.id = token.sub /\ u.is_active = TRUE }
                 ELSE {}
        reject(error) == [next |-> FALSE, status |-> 401, error |-> error, user |-> None]
    IN IF token.kind = "empty" THEN reject("Access token required")
       ELSE IF ~getUser /\ ~verified THEN reject("Invalid token")
       ELSE IF found = {} THEN reject("Invalid token or user not found")
       ELSE [next |-> TRUE, status |-> 0, error |-> "",
             user |-> Some(CHOOSE u \in found : TRUE)]

\* AuthService.signup over the identity provider: admin.createUser with the
\* lower-cased email (the provider refuses an email it already holds, and its
\* message becomes the error's message), the upsert of the users row keyed by
\* the new id (users.email is UNIQUE), then signInWithPassword.  The names
\* drawn carry no surrounding blanks, so name.trim() leaves them as they are.
signup(userData, usersTable, authUsers, up) ==
    LET email == toLowerCase(userData.email)
        newId == <<"u4", "u5", "u6", "u7">>[Cardinality({ a.id : a \in usersTable \cup authUsers }) - 2]
        created == authUsers \cup {[id |-> newId, email |-> email,
                                    password |-> userData.password]}
        dbUser == [id |-> newId, email |-> email, name |-> userData.name,
                   is_active |-> TRUE]
        answer(status, message, rows, auth) ==
            [status |-> status, message |-> message, users |-> rows,
             auth_users |-> auth]
    IN IF \E a \in authUsers : a.email = email
         THEN answer(500, "A user with this email address has already been registered",
                     usersTable, authUsers)
       ELSE IF ~up \/ \E u \in usersTable : u.email = email
         THEN answer(500, "Failed to create application user", usersTable, created)
       ELSE answer(201, "User created successfully", usersTable \cup {dbUser}, created)

\* AuthService.signup of the earlier service: select by the lower-cased
\* email, 409 when a row exists, else insert the row
signupLegacy(userData, usersTable, authUsers, up) ==
    LET email == toLowerCase(userData.email)
        newId == <<"u4", "u5", "u6", "u7">>[Cardinality({ a.id : a \in usersTable \cup authUsers }) - 2]
        newUser == [id |-> newId, email |-> email, name |-> userData.name,
                    is_active |-> TRUE]
        answer(status, message, rows) ==
            [status |-> status, message |-> message, users |-> rows,
             auth_users |-> authUsers]
    IN IF up /\ \E u \in usersTable : u.email = email
         THEN answer(409, "User with this email already exists", usersTable)
       ELSE IF ~up
         THEN answer(500, "Failed to create user", usersTable)
       ELSE answer(201, "User created successfully", usersTable \cup {newUser})

\* AuthService.login: signInWithPassword, then the active users row
login(loginData, usersTable, authUsers, up) ==
    LET email == toLowerCase(loginData.email)
        signedIn == { a \in authUsers :
                        a.email = email /\ a.password = loginData.password }
        appUser == IF up THEN { u \in usersTable :
                                  /\ \E a \in signedIn : a.id = u.id
                                  /\ u.is_active = TRUE }
                   ELSE {}
        answer(status, message) ==
            [status |-> status, message |-> message, users |-> usersTable,
             auth_users |-> authUsers]
    IN IF signedIn = {} THEN answer(401, "Invalid email or password")
       ELSE IF appUser = {} THEN answer(404, "User not found")
       ELSE answer(200, "Login successful")

\* a request arrives at one of the routers.  router.use(authenticateToken)
\* covers every budget and user route; of the auth routes, signup and login
\* carry no authenticateToken.  The bodies drawn pass validateRequest.
Arrive ==
    LET routes == << [router |-> "auth", path |-> "/signup", public |-> TRUE],
                     [router |-> "auth", path |-> "/login", public |-> TRUE],
                     [router |-> "auth", path |-> "/profile", public |-> FALSE],
                     [router |-> "auth", path |-> "/change-password", public |-> FALSE],
                     [router |-> "auth", path |-> "/logout", public |-> FALSE],
                     [router |-> "users", path |-> "/profile", public |-> FALSE],
                     [router |-> "budget", path |-> "/dashboard", public |-> FALSE],
                     [router |-> "budget", path |-> "/categories", public |-> FALSE] >>
        token(kind, sub, expired) == [kind |-> kind, sub |-> sub, expired |-> expired]
        headers == { <<>>, <<"Bearer">>,
                     <<"Bearer", token("empty", NoUser, FALSE)>>,
                     <<"Bearer", token("garbage", NoUser, FALSE)>>,
                     <<"Bearer", token("supabase", "u1", FALSE)>>,
                     <<"Bearer", token("supabase", "u1", TRUE)>>,
                     <<"Bearer", token("supabase", "u3", FALSE)>>,
                     <<"Bearer", token("supabase", "u4", FALSE)>>,
                     <<"Bearer", token("legacy", "u2", FALSE)>>,
                     <<"Bearer", token("legacy", "u2", TRUE)>>,
                     <<"Bearer", token("legacy", "u3", FALSE)>>,
                     <<"Bearer", token("legacy", "u9", FALSE)>>,
                     <<"Token", token("supabase", "u2", FALSE)>> }
        emails == { <<"a","n","n","@","x">>, <<"A","n","n","@","X">>,
                    <<"d","a","n","@","x">> }
        bodies == { [email |-> e, password |-> pw, name |-> "Dan"]
                    : e \in emails, pw \in {"secret", "other!"} }
    IN /\ IF request = None THEN TRUE ELSE request[1].stage = "answered"
       /\ \E i \in DOMAIN routes, authorization \in headers, body \in bodies :
            /\ routes[i].public => authorization = <<>>
            /\ ~routes[i].public => body.email = <<"d","a","n","@","x">> /\ body.password = "secret"
            /\ request' = Some([route |-> routes[i], authorization |-> authorization,
                                body |-> body,
                                stage |-> IF routes[i].public THEN "handler"
                                          ELSE "authenticateToken",
                                user |-> None, handled |-> FALSE, status |-> 0,
                                success |-> FALSE, message |-> ""])
       /\ UNCHANGED <<categories, catSeq, transactions, txSeq, monthly_goals, goalSeq,
                      dashboard, calls, store_up, users, auth_users>>

\* authenticateToken answers 401 or attaches the account and calls next()
AuthenticateTokenStep ==
    /\ request # None
    /\ request[1].stage = "authenticateToken"
    /\ LET r == request[1]
           a == authenticateToken(r.authorization, users, auth_users, store_up)
       IN request' = Some(IF a.next
                            THEN [r EXCEPT !.stage = "handler", !.user = a.user]
                            ELSE [r EXCEPT !.stage = "answered", !.status = a.status,
                                           !.message = a.error])
    /\ UNCHANGED <<categories, catSeq, transactions, txSeq, monthly_goals, goalSeq,
                   dashboard, calls, store_up, users, auth_users>>

\* the route's handler runs: AuthController.signup (either service) and
\* login; BudgetController.createCategory on the budget categories route; the
\* other handlers only read
HandlerStep ==
    /\ request # None
    /\ request[1].stage = "handler"
    /\ LET r == request[1]
           answered(status, message) ==
               [r EXCEPT !.stage = "answered", !.handled = TRUE, !.status = status,
                         !.success = status < 400, !.message = message]
       IN IF r.route.path \in {"/signup", "/login"}
            THEN /\ \E o \in IF r.route.path = "/login"
                               THEN { login(r.body, users, auth_users, store_up) }
                               ELSE { signup(r.body, users, auth_users, store_up),
                                      signupLegacy(r.body, users, auth_users, store_up) } :
                      /\ request' = Some(answered(o.status, o.message))
                      /\ users' = o.users
                      /\ auth_users' = o.auth_users
                 /\ UNCHANGED <<categories, catSeq>>
          ELSE IF r.route.router = "budget" /\ r.route.path = "/categories"
            THEN /\ catSeq < NumDefaults + MaxCategories
                 /\ \E o \in IF store_up
                               THEN { createCategory(Db, r.user[1].id,
                                                     [name |-> FoodGroceries,
                                                      color |-> "#112233",
                                                      icon |-> "star"]) }
                               ELSE { Reply(500, "Failed to create category", None, None,
                                            Db) } :
                      /\ request' = Some(answered(o.status, o.message))
                      /\ categories' = o.db.categories
                      /\ catSeq' = o.db.catSeq
                 /\ UNCHANGED <<users, auth_users>>
          ELSE /\ request' = Some(answered(200, "OK"))
               /\ UNCHANGED <<categories, catSeq, users, auth_users>>
    /\ UNCHANGED <<transactions, txSeq, monthly_goals, goalSeq, dashboard, calls,
                   store_up>>

NextAuth == Arrive \/ AuthenticateTokenStep \/ HandlerStep \/ StoreFault

SpecAuth == Init /\ [][NextAuth]_vars

(***************************************************************************)
(* The request space the properties range over: every combination of the   *)
(* arguments, on every store the calls above can produce.                  *)
(***************************************************************************)
AllUpdateRequests ==
    [category_id : CategoryRefs, category_name : CategoryNames,
     amount : {None, Some(25)}, description : {None, Some("dinner")},
     date : {None, Some(FirstOfJune)}]

AllCreateRequests ==
    [category_id : CategoryRefs, category_name : CategoryNames,
     amount : {10}, description : {"lunch"}, date : CreateDates]

\* a category of another account than userId
Foreign(c, userId) == c.user_id # userId /\ c.user_id # NoUser

(***************************************************************************)
(* C1.  resolveCategoryId never returns a category owned by a different    *)
(* account: for every owner, reference, name and createIfMissing, on every *)
(* store, the category returned is a system default, is already owned by   *)
(* the owner, or is newly created with the owner as its owner.             *)
(***************************************************************************)
C1_ResolveStaysInsideOwnership ==
    \A userId \in Users, categoryId \in CategoryRefs,
       categoryName \in CategoryNames, createIfMissing \in BOOLEAN :
      \A o \in resolveCategoryId(Db, userId, categoryId, categoryName, createIfMissing) :
        o.res # None =>
          /\ \E c \in o.db.categories : IdName(c) = o.res[1]
          /\ \A c \in o.db.categories :
               c.id = o.res[1].id =>
                 \/ c \in categories /\ c.is_default
                 \/ c \in categories /\ c.user_id = userId
                 \/ c \notin categories /\ c.user_id = userId /\ ~c.is_default

\* a store holding a category of another account, on which a createTransaction
\* that names that category by its (valid) identifier has just been answered
\* without the category being used
C1_Witness ==
    \E userId \in Users, c \in categories :
      /\ Foreign(c, userId)
      /\ isUuid(Some(c.id))
      /\ \E o \in createTransaction(Db, userId,
                     [category_id |-> Some(c.id), category_name |-> None,
                      amount |-> 10, description |-> "lunch", date |-> MidMay]) :
           o.db = Db /\ o.status = 400

(***************************************************************************)
(* C2.  Every stored transaction references a category that is a system    *)
(* default or is owned by the transaction's own account.                   *)
(***************************************************************************)
C2_TransactionsUseOwnOrDefaultCategory ==
    \A t \in transactions :
      \E c \in categories :
        c.id = t.category_id /\ (c.is_default \/ c.user_id = t.user_id)

\* an updated transaction attached to a category of its own account while
\* another account owns a category too
C2_Witness ==
    \E t \in transactions, c \in categories, other \in categories :
      /\ c.id = t.category_id /\ c.user_id = t.user_id
      /\ t.amount = 25
      /\ Foreign(other, t.user_id)

(***************************************************************************)
(* C3.  An updateTransaction whose category reference cannot be resolved   *)
(* (the 400 reply) writes nothing to the transactions table, whatever      *)
(* amount, description or date the same request supplies.                  *)
(***************************************************************************)
C3_RejectedUpdateWritesNothing ==
    \A userId \in Users, transactionId \in TransactionIds,
       updates \in AllUpdateRequests :
      \A o \in updateTransaction(Db, userId, transactionId, updates) :
        o.status = 400 => o.db.transactions = transactions

\* a store on which an update of an existing transaction that supplies a new
\* amount, description and date has just been rejected for its category
C3_Witness ==
    \E t \in transactions, updates \in AllUpdateRequests :
      /\ updates.amount # None /\ updates.amount[1] # t.amount
      /\ updates.description # None /\ updates.description[1] # t.description
      /\ updates.date # None /\ DateColumn(updates.date[1]) # t.date
      /\ \E o \in updateTransaction(Db, t.user_id, t.id, updates) :
           o.status = 400 /\ o.db = Db

(***************************************************************************)
(* C4.  updateTransaction by an account with the id of another account's   *)
(* transaction replies 404 'Transaction not found', leaves the store as it *)
(* is and has exactly the outcome of the same call with an id that no      *)
(* transaction has.                                                        *)
(***************************************************************************)
C4_ForeignTransactionLooksAbsent ==
    \A userId \in Users, t \in transactions, ghost \in TransactionIds,
       updates \in AllUpdateRequests :
      (t.user_id # userId /\ \A x \in transactions : x.id # ghost) =>
         /\ updateTransaction(Db, userId, t.id, updates)
              = {Reply(404, "Transaction not found", None, None, Db)}
         /\ updateTransaction(Db, userId, t.id, updates)
              = updateTransaction(Db, userId, ghost, updates)

\* a store holding a transaction of another account, on which an update of it
\* that supplies a new amount has just been answered 404
C4_Witness ==
    \E userId \in Users, t \in transactions, updates \in AllUpdateRequests :
      /\ t.user_id # userId
      /\ updates.amount # None /\ updates.amount[1] # t.amount
      /\ \E o \in updateTransaction(Db, userId, t.id, updates) :
           o.status = 404 /\ o.db = Db

(***************************************************************************)
(* C5.  The monthly_goals table holds at most one row per (account,        *)
(* month), after any sequence of createMonthlyGoal calls; each call is one *)
(* atomic upsert of the store, so the sequences are the interleavings.     *)
(***************************************************************************)
C5_OneGoalPerAccountAndMonth ==
    \A g1 \in monthly_goals, g2 \in monthly_goals :
      (g1.user_id = g2.user_id /\ g1.month = g2.month) => g1 = g2

\* the goal g that request made of its values
AsRequest(g) == [month |-> g.month, income |-> g.income, expenses |-> g.expenses]

\* the table before the latest call, if that call replaced old's values by g's
GoalsBefore(g, old) ==
    [rows |-> (monthly_goals \ {g})
                 \cup {[g EXCEPT !.income = old.income, !.expenses = old.expenses]},
     seq |-> goalSeq]

\* both accounts hold goals, and the table is what a createMonthlyGoal for an
\* (account, month) that already had a goal with another income has left
C5_Witness ==
    \E g \in monthly_goals, other \in monthly_goals, old \in GoalRequests :
      /\ other.user_id # g.user_id
      /\ old.month = g.month /\ old.income # g.income
      /\ createMonthlyGoal(GoalsBefore(g, old), g.user_id, AsRequest(g)).goals = Goals

(***************************************************************************)
(* C6.  Two createMonthlyGoal calls for the same (account, month) leave    *)
(* exactly one goal row for it, holding exactly the second call's income   *)
(* and expense list (nothing of the first list merged in), and leave all   *)
(* other rows as they were; two calls with identical data leave the same   *)
(* table as one call.                                                      *)
(***************************************************************************)
C6_SecondGoalReplacesFirst ==
    \A userId \in Users, first \in GoalRequests, second \in GoalRequests :
      first.month = second.month =>
        LET o1 == createMonthlyGoal(Goals, userId, first)
            o2 == createMonthlyGoal(o1.goals, userId, second)
            mine == { g \in o2.goals.rows :
                        g.user_id = userId /\ g.month = second.month }
        IN /\ Cardinality(mine) = 1
           /\ \A g \in mine : g.income = second.income /\ g.expenses = second.expenses
           /\ o2.goals.rows \ mine
                = { g \in monthly_goals :
                      ~(g.user_id = userId /\ g.month = second.month) }
           /\ (first = second => o2.goals = o1.goals)

\* the table is what a createMonthlyGoal with the one-entry expense list has
\* left of a goal that had the two-entry list and another income
C6_Witness ==
    \E g \in monthly_goals, old \in GoalRequests :
      /\ old.month = g.month /\ old.income # g.income
      /\ old.expenses = <<FoodExpense, RentExpense>> /\ g.expenses = <<RentExpense>>
      /\ createMonthlyGoal(GoalsBefore(g, old), g.user_id, AsRequest(g)).goals = Goals

(***************************************************************************)
(* C7.  Every stored transaction's month is the YYYY-MM key of its stored  *)
(* date.                                                                   *)
(***************************************************************************)
C7_MonthIsKeyOfStoredDate ==
    \A t \in transactions : t.month = MonthKey(t.date)

(***************************************************************************)
(* C8.  When the reference is the valid identifier of a category visible   *)
(* to the owner, resolveCategoryId returns that category's stored id and   *)
(* name whatever categoryName (and createIfMissing) is passed, and leaves  *)
(* the store as it is.                                                     *)
(***************************************************************************)
C8_VisibleIdentifierWins ==
    \A userId \in Users, c \in categories,
       categoryName \in CategoryNames, createIfMissing \in BOOLEAN :
      (Visible(c, userId) /\ isUuid(Some(c.id))) =>
         resolveCategoryId(Db, userId, Some(c.id), categoryName, createIfMissing)
           = {[res |-> Some(IdName(c)), db |-> Db]}

\* the store is what an updateTransaction has left that named the own category
\* c by its identifier together with the name of another own category
C8_Witness ==
    \E t \in transactions, c \in categories, named \in categories :
      /\ c.user_id = t.user_id /\ named.user_id = t.user_id
      /\ named.id # c.id /\ named.name = FoodGroceries
      /\ \E o \in updateTransaction(Db, t.user_id, t.id,
                     [category_id |-> Some(c.id), category_name |-> Some(named.name),
                      amount |-> None, description |-> None, date |-> None]) :
           /\ o.status = 200 /\ o.db = Db
           /\ o.resolved = Some(IdName(c))

(***************************************************************************)
(* C9.  Slugs and the names the derivation is to give them.                *)
(***************************************************************************)
SlugExamples ==
    { [slug |-> FoodGroceriesSlug, name |-> FoodGroceries],
      [slug |-> <<"a","-","b">>, name |-> <<"A"," ","B">>],
      [slug |-> <<"e","a","t","-","o","u","t","-","2","g","o">>,
       name |-> <<"E","a","t"," ","O","u","t"," ","2","g","o">>] }

\* what the claim expects of the call: one new category of the owner,
\* is_default = false, named by the derivation, returned by id and name
CreatedFromSlug(userId, ex) ==
    LET created == [id |-> uuid_generate_v4(catSeq + 1), name |-> ex.name,
                    color |-> "#6B7280", icon |-> "more-horizontal",
                    is_default |-> FALSE, user_id |-> userId]
    IN {[res |-> Some([id |-> created.id, name |-> ex.name]),
         db |-> Store(categories \cup {created}, catSeq + 1, transactions, txSeq)]}

C10_BlankNameIsNotFound ==
    \A userId \in Users, categoryId \in CategoryRefs,
       categoryName \in CategoryNames, createIfMissing \in BOOLEAN :
      LET derivedName == DerivedName(categoryId, categoryName) IN
        ( /\ ~(isUuid(categoryId)
                 /\ SelectCategoryById(Db, userId, categoryId[1]) # {})
          /\ (~Truthy(derivedName) \/ IsBlank(derivedName[1])) )
        => resolveCategoryId(Db, userId, categoryId, categoryName, createIfMissing)
             = {[res |-> None, db |-> Db]}

(***************************************************************************)
(* C11.  The outcome expected of a resolution that has to create the       *)
(* category name for userId: the new row, returned by id and name.         *)
(***************************************************************************)
CreatedNamed(userId, name) ==
    CreatedFromSlug(userId, [name |-> name])

\* another account's category referred to by its valid identifier, with a
\* categoryName that no category visible to userId has
HiddenReference(userId, c, categoryName) ==
    /\ Foreign(c, userId) /\ ~c.is_default /\ isUuid(Some(c.id))
    /\ categoryName # None =>
         ~\E v \in categories : Visible(v, userId) /\ v.name = categoryName[1]

(***************************************************************************)
(* C11 as claimed.  A reference that is the valid identifier of a category *)
(* not visible to the owner is not treated as found, and whenever the      *)
(* lookup by name finds nothing and creation is permitted the call creates *)
(* a new category owned by the owner, also when no categoryName is given.  *)
(***************************************************************************)
C11_HiddenReferenceAlwaysCreates ==
    \A userId \in Users, c \in categories, categoryName \in CategoryNames :
      HiddenReference(userId, c, categoryName) =>
        \A o \in resolveCategoryId(Db, userId, Some(c.id), categoryName, TRUE) :
          /\ o.res # None
          /\ o.res[1].id # c.id
          /\ \E d \in o.db.categories \ categories :
               d.user_id = userId /\ IdName(d) = o.res[1]

(***************************************************************************)
(* C11 amended.  Such a reference is never returned.  With a categoryName  *)
(* (not blank) that a visible category has, that category is returned.     *)
(* Otherwise, with a non-empty categoryName and creation permitted, one    *)
(* category of that name is created for the owner and returned, unless the *)
(* owner already owns a category of that name (a blank one, which the      *)
(* lookup by name skips): then, and with no categoryName, and with         *)
(* creation not permitted, the call returns not-found and creates nothing. *)
(***************************************************************************)
C11_HiddenReferenceCreatesOnlyWithName ==
    \A userId \in Users, c \in categories,
       categoryName \in CategoryNames, createIfMissing \in BOOLEAN :
      (Foreign(c, userId) /\ ~c.is_default /\ isUuid(Some(c.id))) =>
        LET got == resolveCategoryId(Db, userId, Some(c.id), categoryName,
                                     createIfMissing)
            named == IF categoryName = None \/ IsBlank(categoryName[1]) THEN {}
                     ELSE { v \in categories :
                              Visible(v, userId) /\ v.name = categoryName[1] }
            owned == categoryName # None /\
                       \E v \in categories :
                         v.user_id = userId /\ v.name = categoryName[1]
        IN /\ \A o \in got : o.res # None => o.res[1].id # c.id
           /\ got = IF named # {}
                      THEN {[res |-> Some(IdName(v)), db |-> Db] : v \in named}
                    ELSE IF categoryName # None /\ createIfMissing /\ ~owned
                      THEN CreatedNamed(userId, categoryName[1])
                    ELSE {[res |-> None, db |-> Db]}

\* the store is what a createTransaction has left that referred to another
\* account's category c by its identifier and gave a name of its own: the new
\* category d of the caller and the transaction t in it
C11_Witness ==
    \E t \in transactions, c \in categories, d \in categories :
      /\ Foreign(c, t.user_id) /\ ~c.is_default
      /\ t.id = txSeq /\ d.id = uuid_generate_v4(catSeq) /\ t.category_id = d.id
      /\ d.user_id = t.user_id /\ d.name = FoodGroceries
      /\ \E o \in createTransaction(
                     Store(categories \ {d}, catSeq - 1, transactions \ {t}, txSeq - 1),
                     t.user_id,
                     [category_id |-> Some(c.id), category_name |-> Some(d.name),
                      amount |-> t.amount, description |-> t.description,
                      date |-> MidMay]) :
           o.status = 201 /\ o.db = Db

(***************************************************************************)
(* C12.  A successful createTransaction stores exactly one new transaction *)
(* owned by the caller, whose category id and name are the pair that the   *)
(* category resolution returned, and returns that stored row; when the     *)
(* resolution returns not-found the call fails with status 400 and stores  *)
(* no transaction.                                                         *)
(***************************************************************************)
C12_CreateStoresResolvedCategory ==
    \A userId \in Users, transactionData \in AllCreateRequests :
      \A o \in createTransaction(Db, userId, transactionData) :
        /\ o.status = 201 =>
             /\ o.data # None /\ o.resolved # None
             /\ o.data[1] \notin transactions
             /\ o.db.transactions = transactions \cup {o.data[1]}
             /\ o.data[1].user_id = userId
             /\ o.data[1].category_id = o.resolved[1].id
             /\ o.data[1].category_name = o.resolved[1].name
             /\ \E r \in resolveCategoryId(Db, userId, transactionData.category_id,
                                           transactionData.category_name, TRUE) :
                  r.res = o.resolved /\ r.db.categories = o.db.categories
        /\ (~InvalidDate(transactionData.date) /\ o.resolved = None) =>
             /\ o.status = 400
             /\ o.data = None
             /\ o.db.transactions = transactions
        /\ o.status \in {201, 400, 500}

\* the store is what a successful createTransaction has left that referred to
\* its category by the slug "food-groceries" and the name "Utilities": the
\* transaction carries the id and name of the default category Utilities
C12_Witness ==
    \E t \in transactions :
      /\ t.id = txSeq /\ t.category_name = Utilities
      /\ \E o \in createTransaction(
                     Store(categories, catSeq, transactions \ {t}, txSeq - 1),
                     t.user_id,
                     [category_id |-> Some(FoodGroceriesSlug),
                      category_name |-> Some(Utilities),
                      amount |-> t.amount, description |-> t.description,
                      date |-> MidMay]) :
           o.status = 201 /\ o.db = Db /\ o.data = Some(t)
(***************************************************************************)
(* The summaries the dashboard can hand out on the store as it is, to any  *)
(* account in any month.                                                   *)
(***************************************************************************)
AllSummaries ==
    UNION { getDashboardSummary(Db, Goals, userId, currentMonth)
            : userId \in Users, currentMonth \in CurrentMonths }

\* the sum of the expected amounts of the goal of summary s, 0 without a goal
ExpectedOf(s) ==
    IF s.monthlyGoal = None THEN 0
    ELSE SumOf(s.monthlyGoal[1].expenses, "expected_amount")

NonNegative(s) == \A i \in 1..Len(s.transactions) : s.transactions[i].amount >= 0

\* the fraction r is the quotient n / d, d # 0
IsQuotient(r, n, d) == r.den > 0 /\ r.num * d = n * r.den

(***************************************************************************)
(* C13.  With non-negative amounts, monthlyProgress is                      *)
(* min(totalExpenses / totalExpectedExpenses * 100, 100) when               *)
(* totalExpectedExpenses > 0 and 0 otherwise, hence between 0 and 100, and *)
(* it is 100 when the spending exceeds the expected total.                 *)
(***************************************************************************)
C13_ProgressIsClampedShare ==
    \A s \in AllSummaries :
      NonNegative(s) =>
        LET expected == ExpectedOf(s)
            p == s.monthlyProgress
        IN /\ expected <= 0 => p = Zero
           /\ (expected > 0 /\ s.totalExpenses * 100 <= 100 * expected) =>
                IsQuotient(p, s.totalExpenses * 100, expected)
           /\ (expected > 0 /\ s.totalExpenses * 100 > 100 * expected) => p = Hundred
           /\ p.den > 0 /\ 0 <= p.num /\ p.num <= 100 * p.den

\* a summary has been handed out whose spending (155) exceeds the expected
\* total (100) and whose progress is 100
C13_Witness ==
    /\ dashboard # None
    /\ LET s == dashboard[1].summary IN
         /\ NonNegative(s)
         /\ ExpectedOf(s) = 100 /\ s.totalExpenses = 155
         /\ s.monthlyProgress = Hundred

(***************************************************************************)
(* C14.  topCategories has min(5, number of distinct category names)       *)
(* entries, no name twice, each with the summed amount of its name, in     *)
(* non-increasing order of amount, and no name left out has a larger sum   *)
(* than a listed one.                                                      *)
(***************************************************************************)
NamesOf(s) == { s.transactions[i].category_name : i \in 1..Len(s.transactions) }

C15_PercentageUnlessTotalIsZero ==
    \A s \in AllSummaries :
      \A i \in 1..Len(s.topCategories) :
        LET e == s.topCategories[i] IN
          IF s.totalExpenses = 0
            THEN e.percentage = Zero
            ELSE IsQuotient(e.percentage, e.amount * 100, s.totalExpenses)

(***************************************************************************)
(* C15 amended.  Each entry's percentage is amount / totalExpenses * 100   *)
(* when totalExpenses > 0 and 0 when totalExpenses <= 0: the guard is      *)
(* "greater than zero", so no percentage and no progress divides by zero.  *)
(***************************************************************************)
C15_PercentageOfPositiveTotal ==
    \A s \in AllSummaries :
      /\ s.monthlyProgress.den > 0
      /\ \A i \in 1..Len(s.topCategories) :
           LET e == s.topCategories[i] IN
             /\ e.percentage.den > 0
             /\ IF s.totalExpenses > 0
                  THEN IsQuotient(e.percentage, e.amount * 100, s.totalExpenses)
                  ELSE e.percentage = Zero

\* a summary has been handed out whose total is negative and whose only entry,
\* of amount -20, has the percentage 0; and none of the account has a goal
C15_Witness ==
    /\ dashboard # None
    /\ LET s == dashboard[1].summary IN
         /\ s.monthlyGoal = None
         /\ s.totalExpenses = 0 - 20
         /\ Len(s.topCategories) = 1
         /\ s.topCategories[1].amount = 0 - 20
         /\ s.topCategories[1].percentage = Zero

(***************************************************************************)
(* C16.  totalIncome is the goal's income, 0 without a goal; totalExpenses *)
(* is the sum of the amounts; actualSavings = totalIncome - totalExpenses; *)
(* expectedSavings = totalIncome - the sum of the goal's expected amounts; *)
(* with no transactions totalExpenses = 0, topCategories is empty and      *)
(* monthlyProgress = 0.                                                    *)
(***************************************************************************)
C16_TotalsAndSavings ==
    \A s \in AllSummaries :
      /\ s.totalIncome = IF s.monthlyGoal = None THEN 0 ELSE s.monthlyGoal[1].income
      /\ s.totalExpenses = SumOf(s.transactions, "amount")
      /\ s.actualSavings = s.totalIncome - s.totalExpenses
      /\ s.expectedSavings = s.totalIncome - ExpectedOf(s)
      /\ s.transactions = <<>> =>
           /\ s.totalExpenses = 0
           /\ s.topCategories = <<>>
           /\ s.monthlyProgress = Zero

\* a summary has been handed out of the goal with income 1000 and no expected
\* expenses on no transactions
C16_Witness ==
    /\ dashboard # None
    /\ LET s == dashboard[1].summary IN
         /\ s.monthlyGoal # None /\ s.monthlyGoal[1].expenses = <<>>
         /\ s.transactions = <<>>
         /\ s.totalIncome = 1000 /\ s.totalExpenses = 0
         /\ s.actualSavings = 1000 /\ s.expectedSavings = 1000
         /\ s.topCategories = <<>> /\ s.monthlyProgress = Zero

(***************************************************************************)
(* C17.  The dashboard groups by the category name stored on each          *)
(* transaction: with the same transactions and goals, a categories table   *)
(* whose rows carry other names, or from which the accounts' own           *)
(* categories are gone, gives the same summaries.                          *)
(***************************************************************************)
\* the store with every category of an account renamed
Renamed ==
    [Db EXCEPT !.categories =
        { IF c.is_default THEN c ELSE [c EXCEPT !.name = <<"Z">> \o c.name]
          : c \in categories }]

\* the store with the categories of the accounts replaced by one of another name
Recreated ==
    [Db EXCEPT !.categories =
        { c \in categories : c.is_default }
          \cup { [id |-> uuid_generate_v4(catSeq + 1), name |-> <<"Z">>,
                  color |-> "#6B7280", icon |-> "more-horizontal",
                  is_default |-> FALSE, user_id |-> u] : u \in Users },
              !.catSeq = catSeq + 1]

C17_SummaryUsesStoredNames ==
    \A userId \in Users, currentMonth \in CurrentMonths :
      LET now == getDashboardSummary(Db, Goals, userId, currentMonth) IN
        /\ getDashboardSummary(Renamed, Goals, userId, currentMonth) = now
        /\ getDashboardSummary(Recreated, Goals, userId, currentMonth) = now
        /\ \A s \in now : \A i \in 1..Len(s.topCategories) :
             \E t \in transactions :
               /\ t.user_id = userId /\ t.month = currentMonth
               /\ t.category_name = s.topCategories[i].category_name

\* a summary with two groups has been handed out on a store in which the
\* renaming changes the name of the category of every transaction summed
C17_Witness ==
    /\ dashboard # None
    /\ LET s == dashboard[1].summary IN
         /\ Len(s.topCategories) = 2
         /\ \A i \in 1..Len(s.transactions) :
              \E c \in categories, r \in Renamed.categories :
                /\ c.id = s.transactions[i].category_id /\ r.id = c.id
                /\ c.name = s.transactions[i].category_name
                /\ r.name # c.name
         /\ s \in getDashboardSummary(Renamed, Goals, dashboard[1].user_id,
                                      dashboard[1].month)

(***************************************************************************)
(* C18.  The position of name among the first occurrences in list xs.      *)
(***************************************************************************)
FirstAt(xs, name) ==
    CHOOSE i \in 1..Len(xs) :
      /\ xs[i].category_name = name
      /\ \A j \in 1..(i - 1) : xs[j].category_name # name

\* entries of equal amount that stand next to each other in topCategories
Ties(s) ==
    { i \in 1..(Len(s.topCategories) - 1) :
        s.topCategories[i].amount = s.topCategories[i + 1].amount }

(***************************************************************************)
(* C18 as claimed.  One transaction list has one summary, and of two       *)
(* categories with equal sums the one whose first transaction comes        *)
(* earlier in the list is listed first, whatever the names are.            *)
(***************************************************************************)
C18_TiesByFirstTransaction ==
    \A s \in AllSummaries :
      /\ \A other \in AllSummaries :
           (other.monthlyGoal = s.monthlyGoal /\ other.transactions = s.transactions)
             => other = s
      /\ \A i \in Ties(s) :
           FirstAt(s.transactions, s.topCategories[i].category_name)
             < FirstAt(s.transactions, s.topCategories[i + 1].category_name)

(***************************************************************************)
(* C18 amended.  One transaction list has one summary, and two categories  *)
(* with equal sums are listed in the order in which the object holding the *)
(* sums enumerates its keys: names that are array indices first, in        *)
(* ascending numeric order, then the other names by first transaction.     *)
(***************************************************************************)
C18_TiesByKeyOrder ==
    \A s \in AllSummaries :
      /\ \A other \in AllSummaries :
           (other.monthlyGoal = s.monthlyGoal /\ other.transactions = s.transactions)
             => other = s
      /\ \A i \in Ties(s) :
           LET a == s.topCategories[i].category_name
               b == s.topCategories[i + 1].category_name
           IN \/ IsArrayIndex(a) /\ IsArrayIndex(b) /\ IndexLess(a, b)
              \/ IsArrayIndex(a) /\ ~IsArrayIndex(b)
              \/ /\ ~IsArrayIndex(a) /\ ~IsArrayIndex(b)
                 /\ FirstAt(s.transactions, a) < FirstAt(s.transactions, b)

\* a summary has been handed out for the list "01", "10", "2", each of amount
\* 10: it lists "2", "10", "01"
C18_Witness ==
    /\ dashboard # None
    /\ LET s == dashboard[1].summary IN
         /\ [i \in 1..Len(s.transactions) |-> s.transactions[i].category_name]
              = << <<"0","1">>, <<"1","0">>, <<"2">> >>
         /\ \A i \in 1..3 : s.transactions[i].amount = 10
         /\ [i \in 1..Len(s.topCategories) |-> s.topCategories[i].category_name]
              = << <<"2">>, <<"1","0">>, <<"0","1">> >>
(***************************************************************************)
(* C19.  A successful updateTransaction changes only what the request      *)
(* specifies: the amount, the description, the date with its month and     *)
(* the category id with its name keep their values when the request leaves *)
(* them out, the id and the owner never change, and no other transaction   *)
(* is touched.                                                             *)
(***************************************************************************)
C19_UpdateKeepsUnspecifiedFields ==
    \A userId \in Users, transactionId \in TransactionIds,
       updates \in AllUpdateRequests :
      \A o \in updateTransaction(Db, userId, transactionId, updates) :
        o.status = 200 =>
          \E old \in transactions :
            LET new == o.data[1] IN
              /\ old.id = transactionId /\ old.user_id = userId
              /\ new.id = old.id /\ new.user_id = old.user_id
              /\ o.db.transactions = (transactions \ {old}) \cup {new}
              /\ updates.amount = None => new.amount = old.amount
              /\ updates.description = None => new.description = old.description
              /\ updates.date = None =>
                   new.date = old.date /\ new.month = old.month
              /\ (~Truthy(updates.category_id) /\ ~Truthy(updates.category_name)) =>
                   /\ new.category_id = old.category_id
                   /\ new.category_name = old.category_name
                   /\ o.db.categories = categories

\* the store is what an updateTransaction that specified the amount 25 and
\* nothing else has left of a transaction of amount 10
C19_Witness ==
    \E t \in transactions :
      /\ t.amount = 25 /\ t.description = "lunch"
      /\ \E o \in updateTransaction(
                     Store(categories, catSeq,
                           (transactions \ {t}) \cup {[t EXCEPT !.amount = 10]}, txSeq),
                     t.user_id, t.id,
                     [category_id |-> None, category_name |-> None,
                      amount |-> Some(25), description |-> None, date |-> None]) :
           o.status = 200 /\ o.db = Db /\ o.data = Some(t)

(***************************************************************************)
(* C20.  getUserCategories returns exactly the categories visible to the   *)
(* account: a category of the store is in the result if and only if it is  *)
(* a system default or is owned by the account.                            *)
(***************************************************************************)
C20_ListIsTheVisibleCategories ==
    \A userId \in Users :
      LET listed == getUserCategories(Db, userId) IN
        /\ listed \subseteq categories
        /\ \A c \in categories :
             c \in listed <=> (c \in DefaultCategories \/ c.user_id = userId)

\* both accounts own a category, and the list of u1 holds its own category and
\* the defaults and not the category of u2
C20_Witness ==
    \E mine \in categories, theirs \in categories :
      /\ mine.user_id = "u1" /\ theirs.user_id = "u2"
      /\ mine \in getUserCategories(Db, "u1")
      /\ theirs \notin getUserCategories(Db, "u1")
      /\ DefaultCategories \subseteq getUserCategories(Db, "u1")

C23_StoreFailureFailsAtOnceWith500 ==
    \A p \in Procs :
      LET c == calls[p] IN
        /\ \A i, j \in DOMAIN c.issued : c.issued[i] = c.issued[j] => i = j
        /\ c.faults # <<>> =>
             /\ c.pc = "done"
             /\ c.status = 500
             /\ c.issued[Len(c.issued)] = c.faults[1]

(***************************************************************************)
(* C29.  As claimed: when a createTransaction or updateTransaction call    *)
(* has failed, a category that its resolution created is not in the        *)
(* categories table.                                                       *)
(***************************************************************************)
C29_FailedCallLeavesCategoriesAsBefore ==
    \A p \in Procs :
      LET c == calls[p] IN
        (/\ c.op \in {"createTransaction", "updateTransaction"}
         /\ c.pc = "done" /\ c.status \notin {200, 201}
         /\ c.created # None)
          => ~\E cat \in categories : cat.id = c.created[1]

(***************************************************************************)
(* C29, as the code has it.  A createTransaction or updateTransaction call *)
(* writes a transaction only in the store call that makes it succeed, and  *)
(* the one change it makes to the categories table is the insert of the    *)
(* category its resolution created, a category of the caller that is not   *)
(* a default; no later step of the call removes that category.  A failed   *)
(* call therefore leaves the transactions as they were and leaves the      *)
(* category it created.                                                    *)
(***************************************************************************)
C29_FailedCallLeavesOnlyItsCategory ==
    [][\A p \in Procs :
         LET c == calls[p]
             d == calls'[p]
         IN (/\ d.issued # c.issued
             /\ d.op \in {"createTransaction", "updateTransaction"})
              => /\ transactions' # transactions =>
                      d.pc = "done" /\ d.status \in {200, 201}
                 /\ categories' # categories =>
                      /\ c.created = None /\ d.created # None
                      /\ \E cat \in categories' :
                           /\ cat.id = d.created[1]
                           /\ cat.user_id = d.user_id
                           /\ cat.is_default = FALSE
                           /\ categories' = categories \cup {cat}
                           /\ cat \notin categories]_vars

\* a createTransaction whose resolution has created a category has failed with
\* 500 because the store was unreachable at the insert of the transaction: the
\* category is in the table and no transaction is
C29_Witness ==
    \E p \in Procs :
      LET c == calls[p] IN
        /\ c.op = "createTransaction" /\ c.pc = "done" /\ c.status = 500
        /\ c.issued = <<"byName", "insertCategory", "insertTransaction">>
        /\ c.faults = <<"insertTransaction">>
        /\ c.created # None
        /\ \E cat \in categories : cat.id = c.created[1] /\ cat.user_id = c.user_id
        /\ transactions = {}

(***************************************************************************)
(* C25.  Find-or-create of a category is a read and then a write, so two   *)
(* requests of one owner can both miss the name and both insert (the       *)
(* witness).  Whatever the interleaving, no two categories of one owner    *)
(* carry the same name, and a call whose category insert the store has     *)
(* rejected issues no further store call: it has looked the name up once,  *)
(* tried the insert once, and ended with 400.                              *)
(***************************************************************************)
C25_RaceLeavesOneCategoryAndNoRetry ==
    /\ \A a, b \in categories :
         (a.user_id # NoUser /\ a.user_id = b.user_id /\ a.name = b.name) => a = b
    /\ \A p \in Procs :
         LET c == calls[p] IN
           (\E i \in DOMAIN c.failed : c.failed[i] = "insertCategory")
             => /\ c.pc = "done" /\ c.status = 400 /\ c.created = None
                /\ c.issued[Len(c.issued)] = "insertCategory"
                /\ \A i, j \in DOMAIN c.issued : c.issued[i] = c.issued[j] => i = j

\* two createTransaction calls of one owner for the same new name have both
\* found no match and both tried the insert: one has created the category and
\* its transaction, the other was rejected and has ended with 400, and the
\* owner has one category of that name
C25_Witness ==
    \E p, q \in Procs :
      LET c == calls[p]
          d == calls[q]
      IN /\ p # q /\ c.user_id = d.user_id
         /\ c.op = "createTransaction" /\ d.op = "createTransaction"
         /\ c.request.body.category_name = d.request.body.category_name
         /\ c.issued = <<"byName", "insertCategory", "insertTransaction">>
         /\ c.failed = <<"byName">> /\ c.created # None /\ c.status = 201
         /\ d.issued = <<"byName", "insertCategory">>
         /\ d.failed = <<"byName", "insertCategory">> /\ d.status = 400
         /\ Cardinality({ cat \in categories :
                            /\ cat.user_id = c.user_id
                            /\ Some(cat.name) = c.request.body.category_name }) = 1

C27_DisjointUpdatesBothStored ==
    \A p, q \in Procs :
      LET c == calls[p]
          d == calls[q]
      IN (/\ c.op = "updateTransaction" /\ d.op = "updateTransaction"
          /\ c.pc = "done" /\ d.pc = "done" /\ c.status = 200 /\ d.status = 200
          /\ c.user_id = d.user_id /\ c.request.id = d.request.id
          /\ c.request.body.amount # None /\ c.request.body.description = None
          /\ c.request.body.category_name = None
          /\ d.request.body.description # None /\ d.request.body.amount = None
          /\ d.request.body.category_name = None)
           => \A t \in transactions :
                (t.id = c.request.id /\ t.user_id = c.user_id)
                  => /\ t.amount = c.request.body.amount[1]
                     /\ t.description = d.request.body.description[1]

(***************************************************************************)
(* C28.  A finished dashboard call has computed its summary from a goal    *)
(* and a transaction list that were both in the store at one common        *)
(* instant of the call.  The two reads are separate store calls, and calls *)
(* of the same account may write between them.                             *)
(***************************************************************************)
C28_DashboardReadsOneInstant ==
    \A p \in Procs :
      LET c == calls[p] IN
        (c.op = "getDashboardSummary" /\ c.pc = "done" /\ c.status = 200)
          => \E s \in c.seen :
               /\ c.goal[1] = getCurrentMonthlyGoal([rows |-> s[1], seq |-> goalSeq],
                                                    c.user_id, c.request.body)
               /\ { c.list[1][i] : i \in DOMAIN c.list[1] }
                    = { t \in s[2] : t.user_id = c.user_id /\ t.month = c.request.body }

\* C28, as the code has it.  Each of the two reads returns what the store
\* held for the caller at some instant of the call, the goal of the month and
\* the caller's transactions of the month, but not necessarily the same
\* instant for both; the summary is the aggregation of the two results.
C28_DashboardReadsEachCurrentOnce ==
    \A p \in Procs :
      LET c == calls[p] IN
        c.op = "getDashboardSummary"
          => /\ c.goal # None
                  => \E s \in c.seen :
                       c.goal[1] = getCurrentMonthlyGoal([rows |-> s[1], seq |-> goalSeq],
                                                         c.user_id, c.request.body)
             /\ c.list # None
                  => \E s \in c.seen :
                       LET rows == { t \in s[2] : /\ t.user_id = c.user_id
                                                  /\ t.month = c.request.body }
                       IN /\ Len(c.list[1]) = Cardinality(rows)
                          /\ { c.list[1][i] : i \in DOMAIN c.list[1] } = rows
             /\ (c.pc = "done" /\ c.status = 200)
                  => /\ c.goal # None /\ c.list # None
                     /\ c.data = Some(DashboardSummary(c.goal[1], c.list[1]))

\* a dashboard has been answered from a goal read before, and a transaction
\* list read after, a goal upsert and a transaction insert of the same account
C28_Witness ==
    \E p \in Procs :
      LET c == calls[p] IN
        /\ c.op = "getDashboardSummary" /\ c.pc = "done" /\ c.status = 200
        /\ c.goal[1] = None /\ c.list[1] # <<>>
        /\ \E g \in monthly_goals : g.user_id = c.user_id /\ g.month = c.request.body
        /\ ~ \E s \in c.seen :
               /\ c.goal[1] = getCurrentMonthlyGoal([rows |-> s[1], seq |-> goalSeq],
                                                    c.user_id, c.request.body)
               /\ { c.list[1][i] : i \in DOMAIN c.list[1] }
                    = { t \in s[2] : t.user_id = c.user_id /\ t.month = c.request.body }

(***************************************************************************)
(* C21.  On every route behind authenticateToken the handler runs only     *)
(* with an active account attached, the one the token names, and only for  *)
(* a token that is not expired and that the identity provider or the       *)
(* legacy JWT check accepts.  A request without a token, or with a token   *)
(* that is refused, expired, or names an inactive or missing account, is   *)
(* answered 401 with success false and its handler never runs.  The        *)
(* budget tables change only in the handler step of a request that carries *)
(* an active account.                                                      *)
(***************************************************************************)
C21_HandlerOnlyBehindAuthentication ==
    [][LET acceptable(r, usersTable, authUsers) ==
             /\ Len(r.authorization) >= 2
             /\ LET token == r.authorization[2] IN
                  /\ token.kind \in {"supabase", "legacy"}
                  /\ ~token.expired
                  /\ token.kind = "supabase" => \E a \in authUsers : a.id = token.sub
                  /\ \E u \in usersTable : u.id = token.sub /\ u.is_active = TRUE
           active(r, usersTable) ==
             /\ r.user # None
             /\ r.user[1] \in usersTable
             /\ r.user[1].is_active = TRUE
       IN /\ (request' # None /\ ~request'[1].route.public)
               => LET r == request'[1] IN
                    /\ (r.stage = "handler" \/ r.handled)
                         => /\ active(r, users')
                            /\ acceptable(r, users', auth_users')
                            /\ r.user[1].id = r.authorization[2].sub
                    /\ (~acceptable(r, users', auth_users') /\ r.stage # "authenticateToken")
                         => /\ r.stage = "answered" /\ r.status = 401
                            /\ r.success = FALSE /\ r.handled = FALSE
          /\ <<categories, catSeq, transactions, txSeq, monthly_goals, goalSeq>>'
               # <<categories, catSeq, transactions, txSeq, monthly_goals, goalSeq>>
               => /\ request # None
                  /\ request[1].stage = "handler"
                  /\ active(request[1], users)]_vars

\* a request on a budget route that carries an unexpired token of the
\* inactive account u3, issued by the identity provider, has been answered
\* 401 without its handler having run
C21_Witness ==
    /\ request # None
    /\ LET r == request[1] IN
         /\ r.route.router = "budget" /\ r.stage = "answered"
         /\ Len(r.authorization) = 2
         /\ r.authorization[2].kind = "supabase" /\ r.authorization[2].sub = "u3"
         /\ ~r.authorization[2].expired
         /\ r.status = 401 /\ r.success = FALSE /\ r.handled = FALSE
         /\ r.message = "Invalid token or user not found"

(***************************************************************************)
(* C22.  A signup whose email, compared without regard to case, already    *)
(* belongs to an account is answered with status 409 and leaves the        *)
(* accounts as they were.  (The store is reachable.)                       *)
(***************************************************************************)
C22_DuplicateSignupIsConflict ==
    [][(/\ request # None
        /\ request[1].stage = "handler"
        /\ request[1].route.path = "/signup"
        /\ request' # None
        /\ request'[1].stage = "answered"
        /\ store_up
        /\ \E u \in users : toLowerCase(u.email) = toLowerCase(request[1].body.email))
         => /\ request'[1].status = 409
            /\ users' = users
            /\ auth_users' = auth_users]_vars

(***************************************************************************)
(* C24.  The message of every failure returned to a caller is one of the   *)
(* texts written in the service, the controller or the middleware.         *)
(***************************************************************************)
C24_FailureMessagesAreFixed ==
    (request # None /\ request[1].stage = "answered" /\ request[1].status >= 400)
      => request[1].message \in
           { "Access token required", "Invalid token", "Invalid token or user not found",
             "Authentication error", "Failed to create auth user",
             "Failed to create application user", "Failed to sign in after signup",
             "Signup failed", "User with this email already exists",
             "Failed to create user", "Invalid email or password", "User not found",
             "Login failed", "Failed to create category" }
====
